---- MODULE Spec2Model ----
(***************************************************************************)
(* ri-sandbox: instance lifecycle, executor, resource tracker, snapshot    *)
(* codec.  One sandbox factory (createWasmSandbox) with its registry, the  *)
(* JavaScript call stack of execute() frames (host handlers are user code  *)
(* and may call the sandbox API re-entrantly), and the pending load()      *)
(* promises whose continuations run only when the call stack is empty.     *)
(***************************************************************************)
EXTENDS Integers, Sequences, FiniteSets, TLC

\* ---------------------------------------------------------------------------
\* Bounds of the model
\* ---------------------------------------------------------------------------
MaxInstances == 2
MaxDepth == 2
MaxLoads == 2
MaxTime == 2
MaxSnaps == 1
\* number of sandbox API calls the callers (top level and host handlers) make
MaxOps == 5
\* the resource tracker on its own: largest limit, largest amount consumed at
\* once, number of calls made on it, last clock reading
MaxUnitLimit == 2
MaxAmount == 2
MaxUnitOps == 4
MaxUnitTime == 3
\* calls made on the twin instances
MaxTwinOps == 3
\* scaled-down WASM page (stands for 65_536 bytes)
PageSize == 2
\* scaled-down length of the encoded state JSON
StateJsonLen == 1

\* ---------------------------------------------------------------------------
\* Program constants
\* ---------------------------------------------------------------------------
HEADER_SIZE == 5
SNAPSHOT_VERSION == 1
LEN_FIELD == 4
MULBERRY_INC == 1831565813

NoCtx == 0

Min(a, b) == IF a < b THEN a ELSE b

\* ---------------------------------------------------------------------------
\* 32-bit integer arithmetic (JavaScript |0, >>>, ^, |, Math.imul).  A word is
\* stored as the signed 32-bit integer and computed on as <<hi, lo>>, its two
\* unsigned 16-bit halves, so that no intermediate value leaves 32 bits.
\* ---------------------------------------------------------------------------
RECURSIVE Pow2(_)
Pow2(n) == IF n = 0 THEN 1 ELSE 2 * Pow2(n - 1)

Halves(x) == <<(x \div 65536) % 65536, x % 65536>>

FromHalves(w) ==
    IF w[1] >= 32768 THEN (w[1] - 65536) * 65536 + w[2] ELSE w[1] * 65536 + w[2]

RECURSIVE Xor16(_, _, _)
Xor16(a, b, n) ==
    IF n = 0 THEN 0
    ELSE (((a % 2) + (b % 2)) % 2) + 2 * Xor16(a \div 2, b \div 2, n - 1)

RECURSIVE Or16(_, _, _)
Or16(a, b, n) ==
    IF n = 0 THEN 0
    ELSE (IF (a % 2) = 1 \/ (b % 2) = 1 THEN 1 ELSE 0) + 2 * Or16(a \div 2, b \div 2, n - 1)

\* a ^ b
Xor32(a, b) == <<Xor16(a[1], b[1], 16), Xor16(a[2], b[2], 16)>>

\* a | b
Or32(a, b) == <<Or16(a[1], b[1], 16), Or16(a[2], b[2], 16)>>

\* a >>> n, 0 < n < 16
Shr32(a, n) ==
    <<a[1] \div Pow2(n), (a[2] \div Pow2(n)) + (a[1] % Pow2(n)) * Pow2(16 - n)>>

\* (a + b) | 0
Add32(a, b) ==
    LET lo == a[2] + b[2]
    IN  <<(a[1] + b[1] + (lo \div 65536)) % 65536, lo % 65536>>

\* low 16 bits of the product of two 16-bit numbers
Mul16Lo(x, y) ==
    LET x0 == x % 256
        x1 == x \div 256
        y0 == y % 256
        y1 == y \div 256
    IN  (x0 * y0 + ((x0 * y1 + x1 * y0) % 256) * 256) % 65536

\* full 32-bit product of two 16-bit numbers, as <<hi, lo>>
Mul16Full(x, y) ==
    LET x0 == x % 256
        x1 == x \div 256
        y0 == y % 256
        y1 == y \div 256
        mid == x0 * y1 + x1 * y0
        low == x0 * y0 + (mid % 256) * 256
    IN  <<(x1 * y1 + (mid \div 256) + (low \div 65536)) % 65536, low % 65536>>

\* Math.imul(a, b)
Imul(a, b) ==
    LET p == Mul16Full(a[2], b[2])
    IN  <<(p[1] + Mul16Lo(a[1], b[2]) + Mul16Lo(a[2], b[1])) % 65536, p[2]>>

\* x | 0 of a number already in the signed 32-bit range
ToInt32(x) == FromHalves(Halves(x))

\* mulberry32Step: <<output, nextState>>; the output is the i32 bit pattern of
\* the unsigned value `>>> 0`, which is what the WASM caller receives
mulberry32Step(state) ==
    LET t0 == Add32(Halves(state), Halves(MULBERRY_INC))
        t1 == Imul(Xor32(t0, Shr32(t0, 15)), Or32(t0, Halves(1)))
        t2 == Xor32(Add32(t1, Imul(Xor32(t1, Shr32(t1, 7)), Or32(t1, Halves(61)))), t1)
    IN  <<FromHalves(Xor32(t2, Shr32(t2, 14))), FromHalves(t0)>>

\* createPrng(seed): the state word
createPrng(seed) == ToInt32(seed)

\* ---------------------------------------------------------------------------
\* Inputs: configurations, module bytes, actions, payloads
\* ---------------------------------------------------------------------------
\* bytesToPages with the scaled page size
bytesToPages(bytes) == (bytes + PageSize - 1) \div PageSize

\* hostFunctions maps each key of the configuration's map to the `name` field
\* of the host function stored under it; CfgB stores a function named "g"
\* under the key "h"
\* CfgA caps memory at one page; CfgB's cap lies strictly between one and two
\* pages, so that a memory.grow the engine allows exceeds the caller's cap
CfgA ==
    [maxMemoryBytes |-> PageSize, maxGas |-> 1, maxExecutionMs |-> 1,
     hostFunctions |-> [k \in {"h"} |-> "h"], deterministicSeed |-> 12345, eventTimestamp |-> 7]

CfgB ==
    [maxMemoryBytes |-> PageSize + 1, maxGas |-> 2, maxExecutionMs |-> 1,
     hostFunctions |-> [k \in {"h"} |-> "g"], deterministicSeed |-> 12345, eventTimestamp |-> 7]

Configs == {CfgA, CfgB}

\* module bytes a caller may hand to load(): the well-formed modules and
\* one input per rejection of loadModule / WebAssembly.instantiate
ValidModules == {"modHost", "modGrow", "modTrap", "modJson", "modProto"}

ModuleBytes ==
    ValidModules \cup {"empty", "short", "badmagic", "nocompile", "badimport", "startthrows"}

\* the body of the exported function `run` of each module, as the sequence of
\* its observable operations
Program(m) ==
    CASE m = "modHost" -> <<"host", "rand", "store">>
      [] m = "modGrow" -> <<"time", "grow">>
      [] m = "modTrap" -> <<"trap">>
      [] m = "modJson" -> <<"grow", "rand", "store">>
      [] OTHER -> <<>>

Exports(m) ==
    CASE m = "modHost" -> {"run", "__alloc"}
      [] m = "modGrow" -> {"run"}
      [] m = "modTrap" -> {"run"}
      [] m = "modJson" -> {"run", "__alloc"}
      [] m = "modProto" -> {"run"}
      [] OTHER -> {}

\* the imports each module declares, as <<namespace, name>>; modProto imports
\* a function under a name every plain object inherits
Imports(m) ==
    CASE m = "modHost" -> {<<"env", "memory">>, <<"env", "h">>, <<"env", "__get_random">>}
      [] m = "modGrow" -> {<<"env", "memory">>, <<"env", "__get_time">>}
      [] m = "modJson" -> {<<"env", "memory">>, <<"env", "__get_random">>}
      [] m = "modProto" -> {<<"env", "toString">>}
      [] m = "badimport" -> {<<"wasi_snapshot_preview1", "fd_write">>}
      [] m = "startthrows" -> {<<"env", "h">>}
      [] OTHER -> {}

\* properties the object literal `envImports` inherits from Object.prototype
ObjectPrototype == {"toString"}

ActionNames == {"run", "nope"}

Payloads == {"direct", "json"}

\* value the JSON calling convention writes into linear memory for the payload
PayloadCell == 2

\* abstract JSON.parse of the bytes read back from memory: even cells parse
JsonParses(cell) == (cell % 2) = 0

Statuses == {"created", "loaded", "running", "suspended", "destroyed"}

\* ---------------------------------------------------------------------------
\* State
\* ---------------------------------------------------------------------------
VARIABLES
    instances,        \* registry: id -> InternalSandboxState
    instanceCounter,  \* module-level id counter of instance-factory
    stack,            \* call stack of execute() frames, innermost last
    loads,            \* load() calls suspended at an await
    loadCounter,      \* number of load() calls made so far
    now,              \* the timer's current reading
    snaps,            \* snapshots the caller holds
    ops,              \* sandbox API calls made so far
    event             \* the operation that just completed and its outcome

vars == <<instances, instanceCounter, stack, loads, loadCounter, now, snaps, ops, event>>

\* op: operation; inst: instance; prev: status when the operation was entered;
\* ok / raised: returned normally with success / propagated an exception;
\* code, kind: error code and trapKind (or reason token); a, b: the two numbers
\* the result carries; cause: what ended an execute() call; action: the export
\* an execute() call named
Ev(op, inst, prev, ok, raised, code, kind, a, b) ==
    [op |-> op, inst |-> inst, prev |-> prev, ok |-> ok, raised |-> raised,
     code |-> code, kind |-> kind, a |-> a, b |-> b, cause |-> "", action |-> ""]

EvX(op, inst, prev, ok, raised, code, kind, a, b, cause) ==
    [op |-> op, inst |-> inst, prev |-> prev, ok |-> ok, raised |-> raised,
     code |-> code, kind |-> kind, a |-> a, b |-> b, cause |-> cause, action |-> ""]

\* the code runs on behalf of a caller: the top level, or a host handler body
CallerContext == IF stack = <<>> THEN TRUE ELSE stack[Len(stack)].inHandler

\* a caller makes one more API call
Call == CallerContext /\ ops < MaxOps /\ ops' = ops + 1

Registered == DOMAIN instances

\* frames of instance i on the call stack
FramesOf(i) == {k \in 1..Len(stack) : stack[k].inst = i}

\* ---------------------------------------------------------------------------
\* create
\* ---------------------------------------------------------------------------
\* createSandboxInstance: the fresh InternalSandboxState.  memory is the
\* WebAssembly.Memory object allocated here (pages, abstract contents), which
\* lives as long as anything refers to it; wasmMemory says whether the state
\* still holds the handle.
createSandboxInstance(config) ==
    [status |-> "created",
     config |-> config,
     metrics |-> [memoryUsedBytes |-> PageSize,
                  memoryLimitBytes |-> config.maxMemoryBytes,
                  gasUsed |-> 0,
                  gasLimit |-> config.maxGas,
                  executionMs |-> 0,
                  executionLimitMs |-> config.maxExecutionMs],
     memory |-> [pages |-> 1, maxPages |-> bytesToPages(config.maxMemoryBytes), cell |-> 0],
     wasmMemory |-> TRUE,
     wasmModule |-> "null",
     wasmInstance |-> "null",
     executionContext |-> NoCtx,
     prng |-> createPrng(config.deterministicSeed)]

\* create() issuing the id of a counter that has been reset
Create_ReuseId ==
    /\ Call
    /\ instanceCounter < MaxInstances
    /\ \E config \in Configs :
         /\ instances' = [i \in Registered \cup {0} |->
                             IF i = 0 THEN createSandboxInstance(config)
                             ELSE instances[i]]
         /\ instanceCounter' = instanceCounter + 1
         /\ event' = Ev("create", 0, "none", TRUE, FALSE, "", "", 0, 0)
    /\ UNCHANGED <<stack, loads, loadCounter, now, snaps>>

Create ==
    /\ Call
    /\ instanceCounter < MaxInstances
    /\ \E config \in Configs :
         /\ instances' = [i \in Registered \cup {instanceCounter} |->
                             IF i = instanceCounter THEN createSandboxInstance(config)
                             ELSE instances[i]]
         /\ instanceCounter' = instanceCounter + 1
         /\ event' = Ev("create", instanceCounter, "none", TRUE, FALSE, "", "", 0, 0)
    /\ UNCHANGED <<stack, loads, loadCounter, now, snaps>>

\* ---------------------------------------------------------------------------
\* destroy
\* ---------------------------------------------------------------------------
\* destroy that releases the module and instance handles but keeps the memory
destroy_KeepMemory(st) ==
    IF st.status = "destroyed"
    THEN [state |-> st, raised |-> FALSE]
    ELSE [state |-> [st EXCEPT !.wasmInstance = "null",
                               !.wasmModule = "null",
                               !.status = "destroyed"],
          raised |-> FALSE]

\* destroy that throws on an instance already destroyed
destroy_ThrowsWhenDestroyed(st) ==
    IF st.status = "destroyed"
    THEN [state |-> st, raised |-> TRUE]
    ELSE [state |-> [st EXCEPT !.wasmInstance = "null",
                               !.wasmModule = "null",
                               !.wasmMemory = FALSE,
                               !.status = "destroyed"],
          raised |-> FALSE]

\* createWasmSandbox.destroy: the state it leaves and whether it raised
destroy(st) ==
    IF st.status = "destroyed"
    THEN [state |-> st, raised |-> FALSE]
    ELSE [state |-> [st EXCEPT !.wasmInstance = "null",
                               !.wasmModule = "null",
                               !.wasmMemory = FALSE,
                               !.status = "destroyed"],
          raised |-> FALSE]

Destroy ==
    /\ Call
    /\ \E i \in Registered :
         LET r == destroy(instances[i]) IN
         /\ instances' = [instances EXCEPT ![i] = r.state]
         /\ event' = Ev("destroy", i, instances[i].status, ~r.raised, r.raised, "", "", 0, 0)
    /\ UNCHANGED <<instanceCounter, stack, loads, loadCounter, now, snaps>>

\* ---------------------------------------------------------------------------
\* getMetrics
\* ---------------------------------------------------------------------------
getMemoryUsageBytes(st) == IF st.wasmMemory THEN st.memory.pages * PageSize ELSE 0

GetMetrics ==
    /\ Call
    /\ \E i \in Registered :
         LET st == instances[i] IN
         IF st.status = "destroyed"
         THEN /\ event' = Ev("getMetrics", i, st.status, FALSE, TRUE, "Error", "destroyed", 0, 0)
              /\ UNCHANGED instances
         ELSE /\ instances' = [instances EXCEPT ![i].metrics.memoryUsedBytes =
                                  IF st.wasmMemory THEN st.memory.pages * PageSize ELSE @]
              /\ event' = Ev("getMetrics", i, st.status, TRUE, FALSE, "", "",
                             instances'[i].metrics.gasUsed, instances'[i].metrics.memoryUsedBytes)
    /\ UNCHANGED <<instanceCounter, stack, loads, loadCounter, now, snaps>>

\* the timer advances (performance.now is monotonic); only differences of
\* readings taken during an execution are ever used
Tick ==
    /\ stack # <<>>
    /\ now < MaxTime
    /\ now' = now + 1
    /\ UNCHANGED <<ops, instances, instanceCounter, stack, loads, loadCounter, snaps, event>>

\* ---------------------------------------------------------------------------
\* load: loadModule, instantiate
\* ---------------------------------------------------------------------------
\* buildImportObject: whether the import object resolves an import of the
\* module; property lookup on `envImports` follows its prototype chain
buildImportObject(st, hasMemory, imp) ==
    /\ imp[1] = "env"
    /\ \/ imp[2] = "memory" /\ hasMemory
       \/ imp[2] \in {"__get_time", "__get_random"}
       \/ imp[2] \in DOMAIN st.config.hostFunctions
       \/ imp[2] \in ObjectPrototype

\* loadModule: the reason it rejects the bytes, or "ok"
loadModule(bytes) ==
    CASE bytes = "empty" -> "empty"
      [] bytes = "short" -> "too_small"
      [] bytes = "badmagic" -> "magic"
      [] bytes = "nocompile" -> "compilation"
      [] OTHER -> "ok"

\* createWasmSandbox.load up to its first await
LoadStart ==
    /\ Call
    /\ \E i \in Registered, bytes \in ModuleBytes :
         LET st == instances[i] IN
         IF st.status = "destroyed"
         THEN /\ event' = Ev("load", i, st.status, FALSE, TRUE, "Error", "destroyed", 0, 0)
              /\ UNCHANGED <<loads, loadCounter>>
         ELSE /\ loadCounter < MaxLoads
              /\ loads' = loads \cup {[id |-> loadCounter, inst |-> i, bytes |-> bytes,
                                       pc |-> "compiling", hasMemory |-> FALSE]}
              /\ loadCounter' = loadCounter + 1
              /\ event' = Ev("loadStart", i, st.status, TRUE, FALSE, "", "", 0, 0)
    /\ UNCHANGED <<instances, instanceCounter, stack, now, snaps>>

\* continuation after `await loadModule(module)`: the rejection of the bytes,
\* or instantiate() up to `await WebAssembly.instantiate`
LoadCompiled ==
    /\ stack = <<>>
    /\ \E l \in loads :
         LET st == instances[l.inst] IN
         /\ l.pc = "compiling"
         /\ IF loadModule(l.bytes) # "ok"
            THEN /\ loads' = loads \ {l}
                 /\ event' = Ev("loadSettled", l.inst, st.status, FALSE, TRUE,
                                "INVALID_MODULE", loadModule(l.bytes), 0, 0)
            ELSE IF st.status = "destroyed"
            THEN /\ loads' = loads \ {l}
                 /\ event' = Ev("loadSettled", l.inst, st.status, FALSE, TRUE,
                                "INSTANCE_DESTROYED", "", 0, 0)
            ELSE /\ loads' = (loads \ {l}) \cup
                        {[l EXCEPT !.pc = "instantiating", !.hasMemory = st.wasmMemory]}
                 /\ event' = Ev("loadCompiled", l.inst, st.status, TRUE, FALSE, "", "", 0, 0)
    /\ UNCHANGED <<ops, instances, instanceCounter, stack, loadCounter, now, snaps>>

\* outcome of WebAssembly.instantiate(module, imports): "startthrows" is a
\* module whose start function calls a host function whose handler throws
instantiateFails(l) ==
    \/ l.bytes = "startthrows"
    \/ \E imp \in Imports(l.bytes) : ~buildImportObject(instances[l.inst], l.hasMemory, imp)

\* messages of the Error a throwing handler carries
HandlerMessages == {"boom", "import"}

\* the message of the Error WebAssembly.instantiate rejects with, as a
\* sequence of text fragments: the closure's decoration of the handler's
\* message, or the engine's link error, which names the import
instantiationError(l, msg) ==
    IF l.bytes = "startthrows"
    THEN <<"Host function", instances[l.inst].config.hostFunctions["h"], "failed:", msg>>
    ELSE <<"LinkError:", "import">>

\* String.prototype.includes over the fragments
includes(message, part) == \E k \in DOMAIN message : message[k] = part

\* classifyInstantiationError: the error instantiate() returns; `kind` is the
\* function name of a HOST_FUNCTION_ERROR
classifyInstantiationError(message) ==
    IF includes(message, "import")
    THEN [code |-> "INVALID_MODULE", kind |-> "import"]
    ELSE IF includes(message, "Host function")
    THEN [code |-> "HOST_FUNCTION_ERROR",
          kind |-> LET k == CHOOSE j \in DOMAIN message : message[j] = "Host function"
                   IN IF k < Len(message) THEN message[k + 1] ELSE "unknown"]
    ELSE [code |-> "INVALID_MODULE", kind |-> "generic"]

\* instantiate() after `await WebAssembly.instantiate`: the state it leaves
instantiated(st, module) ==
    [st EXCEPT !.wasmModule = module,
               !.wasmInstance = module,
               !.status = "loaded",
               !.metrics.memoryUsedBytes =
                   IF st.wasmMemory THEN st.memory.pages * PageSize ELSE @]

LoadInstantiated ==
    /\ stack = <<>>
    /\ \E l \in loads :
         LET st == instances[l.inst] IN
         /\ l.pc = "instantiating"
         /\ loads' = loads \ {l}
         /\ IF instantiateFails(l)
            THEN /\ \E msg \in HandlerMessages :
                      LET message == instantiationError(l, msg) IN
                      event' = [EvX("loadSettled", l.inst, st.status, FALSE, TRUE,
                                    classifyInstantiationError(message).code,
                                    classifyInstantiationError(message).kind, 0, 0,
                                    message[1])
                                  EXCEPT !.action = message[Len(message)]]
                 /\ UNCHANGED instances
            ELSE /\ instances' = [instances EXCEPT ![l.inst] = instantiated(st, l.bytes)]
                 /\ event' = Ev("loadSettled", l.inst, st.status, TRUE, FALSE, "", "", 0, 0)
    /\ UNCHANGED <<ops, instanceCounter, stack, loadCounter, now, snaps>>

\* ---------------------------------------------------------------------------
\* Resource tracker: gas meter, timeout checker, execution context
\* ---------------------------------------------------------------------------
createExecutionContext(config) ==
    [gasUsed |-> 0, gasLimit |-> config.maxGas, exhausted |-> FALSE,
     limitMs |-> config.maxExecutionMs, startTime |-> 0, timedOut |-> FALSE,
     started |-> FALSE]

\* timeoutChecker.start()
start(ctx, t) == [ctx EXCEPT !.startTime = t, !.timedOut = FALSE, !.started = TRUE]

\* a meter that counts but never raises
consume_NoLimit(ctx, amount) ==
    [ctx |-> [ctx EXCEPT !.gasUsed = @ + amount], raised |-> FALSE]

\* a meter that raises before adding the amount that exceeds the limit
consume_RaiseBeforeAdd(ctx, amount) ==
    IF ctx.exhausted
    THEN [ctx |-> ctx, raised |-> TRUE]
    ELSE IF ctx.gasUsed + amount > ctx.gasLimit
    THEN [ctx |-> [ctx EXCEPT !.exhausted = TRUE], raised |-> TRUE]
    ELSE [ctx |-> [ctx EXCEPT !.gasUsed = @ + amount], raised |-> FALSE]

\* a meter for which using exactly the limit is exhaustion
consume_ExactIsExhaustion(ctx, amount) ==
    IF ctx.exhausted
    THEN [ctx |-> ctx, raised |-> TRUE]
    ELSE IF ctx.gasUsed + amount >= ctx.gasLimit
    THEN [ctx |-> [ctx EXCEPT !.exhausted = TRUE, !.gasUsed = @ + amount], raised |-> TRUE]
    ELSE [ctx |-> [ctx EXCEPT !.gasUsed = @ + amount], raised |-> FALSE]

\* gasMeter.consume(amount): the meter afterwards and whether it raised
consume(ctx, amount) ==
    IF ctx.exhausted
    THEN [ctx |-> ctx, raised |-> TRUE]
    ELSE IF ctx.gasUsed + amount > ctx.gasLimit
    THEN [ctx |-> [ctx EXCEPT !.exhausted = TRUE, !.gasUsed = @ + amount], raised |-> TRUE]
    ELSE [ctx |-> [ctx EXCEPT !.gasUsed = @ + amount], raised |-> FALSE]

\* a checker for which reaching the limit is a timeout
check_AtLimitRaises(ctx, t) ==
    IF ctx.timedOut
    THEN [ctx |-> ctx, raised |-> TRUE, elapsed |-> t - ctx.startTime]
    ELSE IF t - ctx.startTime >= ctx.limitMs
    THEN [ctx |-> [ctx EXCEPT !.timedOut = TRUE], raised |-> TRUE, elapsed |-> t - ctx.startTime]
    ELSE [ctx |-> ctx, raised |-> FALSE, elapsed |-> t - ctx.startTime]

\* a checker that forgets a timeout when the elapsed time is within the limit
check_NotSticky(ctx, t) ==
    IF t - ctx.startTime > ctx.limitMs
    THEN [ctx |-> [ctx EXCEPT !.timedOut = TRUE], raised |-> TRUE, elapsed |-> t - ctx.startTime]
    ELSE [ctx |-> ctx, raised |-> FALSE, elapsed |-> t - ctx.startTime]

\* timeoutChecker.check() at timer reading t
check(ctx, t) ==
    IF ctx.timedOut
    THEN [ctx |-> ctx, raised |-> TRUE, elapsed |-> t - ctx.startTime]
    ELSE IF t - ctx.startTime > ctx.limitMs
    THEN [ctx |-> [ctx EXCEPT !.timedOut = TRUE], raised |-> TRUE, elapsed |-> t - ctx.startTime]
    ELSE [ctx |-> ctx, raised |-> FALSE, elapsed |-> t - ctx.startTime]

\* timeoutChecker.elapsedMs at timer reading t
elapsedMs(ctx, t) == IF ctx.started THEN t - ctx.startTime ELSE 0

\* a prologue that checks the deadline before it charges the gas
hostBoundary_CheckFirst(attached, ctx, t) ==
    IF ~attached
    THEN [ctx |-> ctx, signal |-> "none", a |-> 0, b |-> 0]
    ELSE LET c == check(ctx, t) IN
         IF c.raised
         THEN [ctx |-> c.ctx, signal |-> "timeout", a |-> c.elapsed, b |-> c.ctx.limitMs]
         ELSE LET g == consume(c.ctx, 1) IN
              IF g.raised
              THEN [ctx |-> g.ctx, signal |-> "gas", a |-> g.ctx.gasUsed, b |-> g.ctx.gasLimit]
              ELSE [ctx |-> g.ctx, signal |-> "none", a |-> 0, b |-> 0]

\* the prologue every import closure of buildImportObject runs: charge one
\* gas, then check the deadline, on the context attached to the state (none
\* attached: neither).  signal is "none", "gas" or "timeout"; a, b are the
\* numbers the signal carries.
hostBoundary(attached, ctx, t) ==
    IF ~attached
    THEN [ctx |-> ctx, signal |-> "none", a |-> 0, b |-> 0]
    ELSE LET g == consume(ctx, 1) IN
         IF g.raised
         THEN [ctx |-> g.ctx, signal |-> "gas", a |-> g.ctx.gasUsed, b |-> g.ctx.gasLimit]
         ELSE LET c == check(g.ctx, t) IN
              IF c.raised
              THEN [ctx |-> c.ctx, signal |-> "timeout", a |-> c.elapsed, b |-> c.ctx.limitMs]
              ELSE [ctx |-> c.ctx, signal |-> "none", a |-> 0, b |-> 0]

\* buildResourceMetrics(ctx, state.wasmMemory, config) at timer reading t
buildResourceMetrics(ctx, st, t) ==
    [memoryUsedBytes |-> getMemoryUsageBytes(st),
     memoryLimitBytes |-> st.config.maxMemoryBytes,
     gasUsed |-> ctx.gasUsed,
     gasLimit |-> st.config.maxGas,
     executionMs |-> elapsedMs(ctx, t),
     executionLimitMs |-> st.config.maxExecutionMs]

\* ---------------------------------------------------------------------------
\* execute
\* ---------------------------------------------------------------------------
\* execute() without its guard for destroyed instances
executePrecondition_NoDestroyed(st, action) ==
    IF st.status # "loaded" /\ st.status # "running" THEN "invalid_state"
    ELSE IF st.wasmInstance = "null" THEN "no_instance"
    ELSE IF action \notin Exports(st.wasmInstance) THEN "missing_export"
    ELSE "pass"

\* execute() looking at the instance handle before the status
executePrecondition_InstanceFirst(st, action) ==
    IF st.status = "destroyed" THEN "INSTANCE_DESTROYED"
    ELSE IF st.wasmInstance = "null" THEN "no_instance"
    ELSE IF st.status # "loaded" /\ st.status # "running" THEN "invalid_state"
    ELSE IF action \notin Exports(st.wasmInstance) THEN "missing_export"
    ELSE "pass"

\* the guards of execute(), in the order of the code: the first that fails
executePrecondition(st, action) ==
    IF st.status = "destroyed" THEN "INSTANCE_DESTROYED"
    ELSE IF st.status # "loaded" /\ st.status # "running" THEN "invalid_state"
    ELSE IF st.wasmInstance = "null" THEN "no_instance"
    ELSE IF action \notin Exports(st.wasmInstance) THEN "missing_export"
    ELSE "pass"

\* a catch block that rethrows what is not one of its own signals
failureResult_Rethrow(err) ==
    CASE err.signal = "gas" ->
           [code |-> "GAS_EXHAUSTED", kind |-> "", a |-> err.a, b |-> err.b, raised |-> FALSE]
      [] err.signal = "timeout" ->
           [code |-> "TIMEOUT", kind |-> "", a |-> err.a, b |-> err.b, raised |-> FALSE]
      [] OTHER ->
           [code |-> "", kind |-> "", a |-> 0, b |-> 0, raised |-> TRUE]

\* a catch block without the TimeoutSignal branch
failureResult_NoTimeout(err) ==
    CASE err.signal = "gas" ->
           [code |-> "GAS_EXHAUSTED", kind |-> "", a |-> err.a, b |-> err.b, raised |-> FALSE]
      [] OTHER ->
           [code |-> "WASM_TRAP", kind |-> "runtime_error", a |-> 0, b |-> 0, raised |-> FALSE]

\* a catch block that reports other errors as host-function errors
failureResult_HostError(err) ==
    CASE err.signal = "gas" ->
           [code |-> "GAS_EXHAUSTED", kind |-> "", a |-> err.a, b |-> err.b, raised |-> FALSE]
      [] err.signal = "timeout" ->
           [code |-> "TIMEOUT", kind |-> "", a |-> err.a, b |-> err.b, raised |-> FALSE]
      [] OTHER ->
           [code |-> "HOST_FUNCTION_ERROR", kind |-> "h", a |-> 0, b |-> 0, raised |-> FALSE]

\* the catch block's conversion of what was thrown into an error result
failureResult(err) ==
    CASE err.signal = "gas" ->
           [code |-> "GAS_EXHAUSTED", kind |-> "", a |-> err.a, b |-> err.b, raised |-> FALSE]
      [] err.signal = "timeout" ->
           [code |-> "TIMEOUT", kind |-> "", a |-> err.a, b |-> err.b, raised |-> FALSE]
      [] OTHER ->
           [code |-> "WASM_TRAP", kind |-> "runtime_error", a |-> 0, b |-> 0, raised |-> FALSE]

\* a catch block that does not restore the status
catchExit_NoRestore(st, ctx, previousStatus, t) ==
    [st EXCEPT !.metrics = buildResourceMetrics(ctx, st, t),
               !.executionContext = NoCtx]

\* the state the catch block leaves (timer read at t for the metrics)
catchExit(st, ctx, previousStatus, t) ==
    [st EXCEPT !.metrics = buildResourceMetrics(ctx, st, t),
               !.status = previousStatus,
               !.executionContext = NoCtx]

\* a memory check for which reaching the cap is exceeding it
memoryExceeded_AtCap(st) == getMemoryUsageBytes(st) >= st.config.maxMemoryBytes

\* checkMemoryLimit(state.wasmMemory, limit).exceeded
memoryExceeded(st) == getMemoryUsageBytes(st) > st.config.maxMemoryBytes

\* a memory-exceeded exit that leaves the context attached
returnExit_KeepContext(st, ctx, previousStatus, t) ==
    IF getMemoryUsageBytes(st) > st.config.maxMemoryBytes
    THEN [st EXCEPT !.status = previousStatus]
    ELSE [st EXCEPT !.metrics = buildResourceMetrics(ctx, st, t),
                    !.status = previousStatus,
                    !.executionContext = NoCtx]

\* the state the try block leaves after the exported function returned
returnExit(st, ctx, previousStatus, t) ==
    IF memoryExceeded(st)
    THEN [st EXCEPT !.status = previousStatus, !.executionContext = NoCtx]
    ELSE [st EXCEPT !.metrics = buildResourceMetrics(ctx, st, t),
                    !.status = previousStatus,
                    !.executionContext = NoCtx]

Front(stk) == SubSeq(stk, 1, Len(stk) - 1)

TimerReadings == now..Min(now + 1, MaxTime)

\* an exception reaches the catch block of the innermost execute() of stk
Caught(stk, err) ==
    LET f == stk[Len(stk)]
        r == failureResult(err)
    IN  \E t \in TimerReadings :
          /\ instances' = [instances EXCEPT ![f.inst] =
                              catchExit(instances[f.inst], f.ctx, f.previousStatus, t)]
          /\ now' = t
          /\ stack' = Front(stk)
          /\ event' = EvX("execute", f.inst, f.previousStatus, FALSE, r.raised,
                          r.code, r.kind, r.a, r.b, err.signal)

\* execute() from its entry to the call of the exported function (or to
\* its return, when a guard fails or the JSON calling convention throws
\* before the call)
ExecuteEnter ==
    /\ Call
    /\ \E i \in Registered, action \in ActionNames, payload \in Payloads :
         LET st == instances[i]
             pre == executePrecondition(st, action)
             ctx == start(createExecutionContext(st.config), now)
             frame == [inst |-> i, previousStatus |-> st.status, ctx |-> ctx,
                       module |-> st.wasmInstance, ip |-> 1, acc |-> 0,
                       inHandler |-> FALSE, json |-> payload = "json"]
             entered == [st EXCEPT !.executionContext = Len(stack) + 1,
                                   !.status = "running"]
         IN
         IF pre # "pass"
         THEN /\ event' = [EvX("execute", i, st.status, FALSE, FALSE,
                               IF pre = "INSTANCE_DESTROYED" THEN pre ELSE "WASM_TRAP",
                               IF pre = "INSTANCE_DESTROYED" THEN "" ELSE pre,
                               0, 0, "precondition") EXCEPT !.action = action]
              /\ UNCHANGED <<instances, stack, now>>
         ELSE /\ Len(stack) < MaxDepth
              /\ IF payload = "json" /\ (~st.wasmMemory \/ "__alloc" \notin Exports(st.wasmInstance))
                 THEN \E t \in TimerReadings :
                        /\ instances' = [instances EXCEPT ![i] =
                                            catchExit(entered, ctx, st.status, t)]
                        /\ now' = t
                        /\ stack' = stack
                        /\ event' = [EvX("execute", i, st.status, FALSE, FALSE,
                                         "WASM_TRAP", "runtime_error", 0, 0, "error")
                                        EXCEPT !.action = action]
                 ELSE /\ instances' = [instances EXCEPT ![i] =
                                          IF payload = "json"
                                          THEN [entered EXCEPT !.memory.cell = PayloadCell]
                                          ELSE entered]
                      /\ stack' = Append(stack, frame)
                      /\ event' = [Ev("executeEnter", i, st.status, TRUE, FALSE, "", "", 0, 0)
                                      EXCEPT !.action = action]
                      /\ UNCHANGED now
    /\ UNCHANGED <<instanceCounter, loads, loadCounter, snaps>>

\* the innermost frame is running module code at operation op
Running(op) ==
    /\ stack # <<>>
    /\ ~stack[Len(stack)].inHandler
    /\ stack[Len(stack)].ip <= Len(Program(stack[Len(stack)].module))
    /\ Program(stack[Len(stack)].module)[stack[Len(stack)].ip] = op

Top == stack[Len(stack)]

\* the call stack after the import closure's prologue, and its signal
Boundary ==
    LET k == instances[Top.inst].executionContext
        hb == hostBoundary(k # NoCtx, IF k # NoCtx THEN stack[k].ctx ELSE Top.ctx, now)
    IN  [stack |-> IF k # NoCtx THEN [stack EXCEPT ![k].ctx = hb.ctx] ELSE stack,
         err |-> [signal |-> hb.signal, a |-> hb.a, b |-> hb.b]]

\* env.__get_time
WasmGetTime ==
    /\ Running("time")
    /\ LET bd == Boundary IN
       IF bd.err.signal # "none"
       THEN Caught(bd.stack, bd.err)
       ELSE /\ stack' = [bd.stack EXCEPT ![Len(stack)].acc =
                            ToInt32(instances[Top.inst].config.eventTimestamp),
                                         ![Len(stack)].ip = @ + 1]
            /\ event' = Ev("hostCall", Top.inst, instances[Top.inst].status, TRUE, FALSE,
                           "", "time", 0, 0)
            /\ UNCHANGED <<instances, now>>
    /\ UNCHANGED <<ops, instanceCounter, loads, loadCounter, snaps>>

\* env.__get_random drawing from one PRNG that all instances share
WasmGetRandom_SharedPrng ==
    /\ Running("rand")
    /\ LET bd == Boundary
           step == mulberry32Step(instances[Top.inst].prng)
       IN
       IF bd.err.signal # "none"
       THEN Caught(bd.stack, bd.err)
       ELSE /\ stack' = [bd.stack EXCEPT ![Len(stack)].acc = step[1],
                                         ![Len(stack)].ip = @ + 1]
            /\ instances' = [j \in DOMAIN instances |-> [instances[j] EXCEPT !.prng = step[2]]]
            /\ event' = Ev("hostCall", Top.inst, instances[Top.inst].status, TRUE, FALSE,
                           "", "rand", 0, 0)
            /\ UNCHANGED now
    /\ UNCHANGED <<ops, instanceCounter, loads, loadCounter, snaps>>

\* env.__get_random
WasmGetRandom ==
    /\ Running("rand")
    /\ LET bd == Boundary
           step == mulberry32Step(instances[Top.inst].prng)
       IN
       IF bd.err.signal # "none"
       THEN Caught(bd.stack, bd.err)
       ELSE /\ stack' = [bd.stack EXCEPT ![Len(stack)].acc = step[1],
                                         ![Len(stack)].ip = @ + 1]
            /\ instances' = [instances EXCEPT ![Top.inst].prng = step[2]]
            /\ event' = Ev("hostCall", Top.inst, instances[Top.inst].status, TRUE, FALSE,
                           "", "rand", 0, 0)
            /\ UNCHANGED now
    /\ UNCHANGED <<ops, instanceCounter, loads, loadCounter, snaps>>

\* env.<host function>: the prologue, then the user handler is entered
WasmHostCall ==
    /\ Running("host")
    /\ LET bd == Boundary IN
       IF bd.err.signal # "none"
       THEN Caught(bd.stack, bd.err)
       ELSE /\ stack' = [bd.stack EXCEPT ![Len(stack)].inHandler = TRUE]
            /\ event' = Ev("hostCall", Top.inst, instances[Top.inst].status, TRUE, FALSE,
                           "", "host", 0, 0)
            /\ UNCHANGED <<instances, now>>
    /\ UNCHANGED <<ops, instanceCounter, loads, loadCounter, snaps>>

HandlerResults == {0, 1}

\* the user handler returns a number
HandlerReturn ==
    /\ stack # <<>>
    /\ Top.inHandler
    /\ \E v \in HandlerResults :
         stack' = [stack EXCEPT ![Len(stack)].inHandler = FALSE,
                                ![Len(stack)].acc = v,
                                ![Len(stack)].ip = @ + 1]
    /\ event' = Ev("handlerReturn", Top.inst, instances[Top.inst].status, TRUE, FALSE, "", "", 0, 0)
    /\ UNCHANGED <<ops, instances, instanceCounter, loads, loadCounter, now, snaps>>

\* the user handler throws; the closure rethrows a decorated Error
HandlerThrow ==
    /\ stack # <<>>
    /\ Top.inHandler
    /\ Caught(stack, [signal |-> "error", a |-> 0, b |-> 0])
    /\ UNCHANGED <<ops, instanceCounter, loads, loadCounter, snaps>>

\* module code writes its accumulator into linear memory
WasmStore ==
    /\ Running("store")
    /\ instances' = [instances EXCEPT ![Top.inst].memory.cell = Top.acc]
    /\ stack' = [stack EXCEPT ![Len(stack)].ip = @ + 1]
    /\ event' = Ev("wasm", Top.inst, instances[Top.inst].status, TRUE, FALSE, "", "store", 0, 0)
    /\ UNCHANGED <<ops, instanceCounter, loads, loadCounter, now, snaps>>

\* memory.grow(1): refused (-1) at the engine's maximum
WasmGrow ==
    /\ Running("grow")
    /\ LET m == instances[Top.inst].memory IN
       IF m.pages < m.maxPages
       THEN /\ instances' = [instances EXCEPT ![Top.inst].memory.pages = @ + 1]
            /\ stack' = [stack EXCEPT ![Len(stack)].acc = m.pages,
                                      ![Len(stack)].ip = @ + 1]
       ELSE /\ stack' = [stack EXCEPT ![Len(stack)].acc = -1,
                                      ![Len(stack)].ip = @ + 1]
            /\ UNCHANGED instances
    /\ event' = Ev("wasm", Top.inst, instances[Top.inst].status, TRUE, FALSE, "", "grow", 0, 0)
    /\ UNCHANGED <<ops, instanceCounter, loads, loadCounter, now, snaps>>

\* unreachable: the engine throws a RuntimeError
WasmTrap ==
    /\ Running("trap")
    /\ Caught(stack, [signal |-> "error", a |-> 0, b |-> 0])
    /\ UNCHANGED <<ops, instanceCounter, loads, loadCounter, snaps>>

\* executeJsonPayload after the call: does reading the result back throw
jsonResultThrows(st, f) ==
    /\ f.json
    /\ Halves(f.acc)[1] # 0
    /\ (~st.wasmMemory \/ ~JsonParses(st.memory.cell))

\* the value execute() returns on success
resultValue(st, f) ==
    IF ~f.json THEN f.acc
    ELSE IF Halves(f.acc)[1] = 0 THEN 0
    ELSE st.memory.cell

\* the exported function returns: result decoding, memory check, metrics
WasmReturn ==
    /\ stack # <<>>
    /\ ~Top.inHandler
    /\ Top.ip > Len(Program(Top.module))
    /\ LET f == Top
           st == instances[f.inst]
       IN
       IF jsonResultThrows(st, f)
       THEN Caught(stack, [signal |-> "error", a |-> 0, b |-> 0])
       ELSE \E t \in TimerReadings :
              /\ instances' = [instances EXCEPT ![f.inst] =
                                  returnExit(st, f.ctx, f.previousStatus, t)]
              /\ now' = t
              /\ stack' = Front(stack)
              /\ event' = IF memoryExceeded(st)
                          THEN EvX("execute", f.inst, f.previousStatus, FALSE, FALSE,
                                   "MEMORY_EXCEEDED", "", getMemoryUsageBytes(st),
                                   st.config.maxMemoryBytes, "return")
                          ELSE EvX("execute", f.inst, f.previousStatus, TRUE, FALSE,
                                   "", "", resultValue(st, f), f.ctx.gasUsed, "return")
    /\ UNCHANGED <<ops, instanceCounter, loads, loadCounter, snaps>>

\* ---------------------------------------------------------------------------
\* snapshot / restore
\* ---------------------------------------------------------------------------
\* createSnapshot and restoreSnapshot hand their failure back as a SandboxError
\* value; the events of Snapshot and Restore record that value.
\* createSnapshot without its guard for running instances
snapshotRefusal_NoRunning(st) ==
    IF st.status = "destroyed" THEN "destroyed"
    ELSE IF st.status = "created" THEN "not_loaded"
    ELSE IF ~st.wasmMemory THEN "no_memory"
    ELSE "ok"

\* createSnapshot: the reason it refuses, or "ok"
snapshotRefusal(st) ==
    IF st.status = "destroyed" THEN "destroyed"
    ELSE IF st.status = "created" THEN "not_loaded"
    ELSE IF st.status = "running" THEN "running"
    ELSE IF ~st.wasmMemory THEN "no_memory"
    ELSE "ok"

\* createSnapshot: the bytes, as the fields of the binary layout
createSnapshot(st) ==
    [byteLength |-> HEADER_SIZE + LEN_FIELD + st.memory.pages * PageSize + LEN_FIELD + StateJsonLen,
     magicOk |-> TRUE,
     version |-> SNAPSHOT_VERSION,
     memoryLength |-> st.memory.pages * PageSize,
     memoryCell |-> st.memory.cell,
     stateLength |-> StateJsonLen,
     jsonOk |-> TRUE,
     prngState |-> st.prng,
     hasPrngState |-> TRUE,
     timestamp |-> st.config.eventTimestamp,
     gasUsed |-> st.metrics.gasUsed]

Snapshot ==
    /\ Call
    /\ \E i \in Registered :
         LET st == instances[i]
             why == snapshotRefusal(st)
         IN
         IF why # "ok"
         THEN /\ event' = Ev("snapshot", i, st.status, FALSE, FALSE, "SNAPSHOT_ERROR", why, 0, 0)
              /\ UNCHANGED snaps
         ELSE /\ snaps' = IF Cardinality(snaps \cup {createSnapshot(st)}) <= MaxSnaps
                          THEN snaps \cup {createSnapshot(st)}
                          ELSE {createSnapshot(st)}
              /\ event' = Ev("snapshot", i, st.status, TRUE, FALSE, "", "",
                             createSnapshot(st).memoryLength, createSnapshot(st).gasUsed)
    /\ UNCHANGED <<instances, instanceCounter, stack, loads, loadCounter, now>>

\* byte strings a caller may hand to restore(): a snapshot as produced, or
\* damaged in one place; "no_prng" is a state section that parses as JSON but
\* holds no prngState (`{}`)
Damages == {"none", "short", "magic", "version", "no_memlen", "memory_cut",
            "no_statelen", "state_cut", "json", "no_prng"}

Damaged(d, how) ==
    CASE how = "short" -> [d EXCEPT !.byteLength = HEADER_SIZE - 1]
      [] how = "magic" -> [d EXCEPT !.magicOk = FALSE]
      [] how = "version" -> [d EXCEPT !.version = SNAPSHOT_VERSION + 1]
      [] how = "no_memlen" -> [d EXCEPT !.byteLength = HEADER_SIZE + LEN_FIELD - 1]
      [] how = "memory_cut" -> [d EXCEPT !.byteLength = HEADER_SIZE + LEN_FIELD + d.memoryLength - 1]
      [] how = "no_statelen" -> [d EXCEPT !.byteLength = HEADER_SIZE + LEN_FIELD + d.memoryLength]
      [] how = "state_cut" -> [d EXCEPT !.byteLength = @ - 1]
      [] how = "json" -> [d EXCEPT !.jsonOk = FALSE]
      [] how = "no_prng" -> [d EXCEPT !.hasPrngState = FALSE]
      [] OTHER -> d

\* restoreSnapshot without its guard for running instances
restoreRefusal_NoRunning(st, d) ==
    IF st.status = "destroyed" THEN "destroyed"
    ELSE IF st.status = "created" THEN "not_loaded"
    ELSE IF d.byteLength < HEADER_SIZE THEN "header"
    ELSE IF ~d.magicOk THEN "magic"
    ELSE IF d.version # SNAPSHOT_VERSION THEN "version"
    ELSE IF d.byteLength < HEADER_SIZE + LEN_FIELD THEN "truncated_memory_length"
    ELSE IF d.byteLength < HEADER_SIZE + LEN_FIELD + d.memoryLength THEN "truncated_memory"
    ELSE IF d.byteLength < HEADER_SIZE + LEN_FIELD + d.memoryLength + LEN_FIELD
         THEN "truncated_state_length"
    ELSE IF d.byteLength < HEADER_SIZE + LEN_FIELD + d.memoryLength + LEN_FIELD + d.stateLength
         THEN "truncated_state"
    ELSE IF ~d.jsonOk THEN "corrupted"
    ELSE IF ~st.wasmMemory THEN "no_memory"
    ELSE IF d.memoryLength # st.memory.pages * PageSize THEN "memory_size"
    ELSE "ok"

\* restoreSnapshot checking the version before the magic bytes
restoreRefusal_VersionFirst(st, d) ==
    IF st.status = "destroyed" THEN "destroyed"
    ELSE IF st.status = "created" THEN "not_loaded"
    ELSE IF st.status = "running" THEN "running"
    ELSE IF d.byteLength < HEADER_SIZE THEN "header"
    ELSE IF d.version # SNAPSHOT_VERSION THEN "version"
    ELSE IF ~d.magicOk THEN "magic"
    ELSE IF d.byteLength < HEADER_SIZE + LEN_FIELD THEN "truncated_memory_length"
    ELSE IF d.byteLength < HEADER_SIZE + LEN_FIELD + d.memoryLength THEN "truncated_memory"
    ELSE IF d.byteLength < HEADER_SIZE + LEN_FIELD + d.memoryLength + LEN_FIELD
         THEN "truncated_state_length"
    ELSE IF d.byteLength < HEADER_SIZE + LEN_FIELD + d.memoryLength + LEN_FIELD + d.stateLength
         THEN "truncated_state"
    ELSE IF ~d.jsonOk THEN "corrupted"
    ELSE IF ~st.wasmMemory THEN "no_memory"
    ELSE IF d.memoryLength # st.memory.pages * PageSize THEN "memory_size"
    ELSE "ok"

\* restoreSnapshot: the reason it refuses, in the order of the code, or "ok"
restoreRefusal(st, d) ==
    IF st.status = "destroyed" THEN "destroyed"
    ELSE IF st.status = "created" THEN "not_loaded"
    ELSE IF st.status = "running" THEN "running"
    ELSE IF d.byteLength < HEADER_SIZE THEN "header"
    ELSE IF ~d.magicOk THEN "magic"
    ELSE IF d.version # SNAPSHOT_VERSION THEN "version"
    ELSE IF d.byteLength < HEADER_SIZE + LEN_FIELD THEN "truncated_memory_length"
    ELSE IF d.byteLength < HEADER_SIZE + LEN_FIELD + d.memoryLength THEN "truncated_memory"
    ELSE IF d.byteLength < HEADER_SIZE + LEN_FIELD + d.memoryLength + LEN_FIELD
         THEN "truncated_state_length"
    ELSE IF d.byteLength < HEADER_SIZE + LEN_FIELD + d.memoryLength + LEN_FIELD + d.stateLength
         THEN "truncated_state"
    ELSE IF ~d.jsonOk THEN "corrupted"
    ELSE IF ~st.wasmMemory THEN "no_memory"
    ELSE IF d.memoryLength # st.memory.pages * PageSize THEN "memory_size"
    ELSE "ok"

\* prng.setState(stateJson.prngState) reads `.current` of its argument and
\* throws a TypeError when the state JSON holds no prngState
setStateThrows(d) == ~d.hasPrngState

\* restoreSnapshot after the copy into the live buffer, which precedes the
\* call of setState
memoryRestored(st, d) == [st EXCEPT !.memory.cell = d.memoryCell]

\* restoreSnapshot leaving the PRNG as it is
restored_KeepPrng(st, d) ==
    [st EXCEPT !.memory.cell = d.memoryCell,
               !.metrics.gasUsed = d.gasUsed,
               !.status = "loaded"]

\* restoreSnapshot leaving the gas counter as it is
restored_KeepGas(st, d) ==
    [st EXCEPT !.memory.cell = d.memoryCell,
               !.prng = ToInt32(d.prngState),
               !.status = "loaded"]

\* restoreSnapshot once every validation has passed
restored(st, d) ==
    [st EXCEPT !.memory.cell = d.memoryCell,
               !.prng = ToInt32(d.prngState),
               !.metrics.gasUsed = d.gasUsed,
               !.status = "loaded"]

Restore ==
    /\ Call
    /\ \E i \in Registered, s \in snaps, how \in Damages :
         LET st == instances[i]
             d == Damaged(s, how)
             why == restoreRefusal(st, d)
         IN
         IF why # "ok"
         THEN /\ event' = Ev("restore", i, st.status, FALSE, FALSE, "SNAPSHOT_ERROR", why, 0, 0)
              /\ UNCHANGED instances
         ELSE IF setStateThrows(d)
         THEN /\ instances' = [instances EXCEPT ![i] = memoryRestored(st, d)]
              /\ event' = Ev("restore", i, st.status, FALSE, TRUE, "TypeError", "", 0, 0)
         ELSE /\ instances' = [instances EXCEPT ![i] = restored(st, d)]
              /\ event' = Ev("restore", i, st.status, TRUE, FALSE, "", "", 0, 0)
    /\ UNCHANGED <<instanceCounter, stack, loads, loadCounter, now, snaps>>

\* the embedding application marks a loaded instance suspended
Suspend ==
    /\ stack = <<>>
    /\ Call
    /\ \E i \in Registered :
         /\ instances[i].status = "loaded"
         /\ instances' = [instances EXCEPT ![i].status = "suspended"]
         /\ event' = Ev("suspend", i, "loaded", TRUE, FALSE, "", "", 0, 0)
    /\ UNCHANGED <<instanceCounter, stack, loads, loadCounter, now, snaps>>

\* ---------------------------------------------------------------------------
\* Specification
\* ---------------------------------------------------------------------------
Init ==
    /\ instances = [i \in {} |-> 0]
    /\ instanceCounter = 0
    /\ stack = <<>>
    /\ loads = {}
    /\ loadCounter = 0
    /\ now = 0
    /\ snaps = {}
    /\ ops = 0
    /\ event = Ev("init", 0, "none", TRUE, FALSE, "", "", 0, 0)

Next ==
    \/ Create
    \/ Destroy
    \/ GetMetrics
    \/ Tick
    \/ LoadStart
    \/ LoadCompiled
    \/ LoadInstantiated
    \/ ExecuteEnter
    \/ WasmGetTime
    \/ WasmGetRandom
    \/ WasmHostCall
    \/ HandlerReturn
    \/ HandlerThrow
    \/ WasmStore
    \/ WasmGrow
    \/ WasmTrap
    \/ WasmReturn
    \/ Snapshot
    \/ Restore
    \/ Suspend

Spec == Init /\ [][Next]_vars

\* ---------------------------------------------------------------------------
\* The resource tracker on its own: one execution context (gas meter and
\* timeout checker) created with limits drawn from 0..MaxUnitLimit, on which
\* consume, start and check are called in any order while the clock advances.
\* stack holds the context under test with the total of the amounts passed
\* to consume; event records the last call.
\* ---------------------------------------------------------------------------
TrackerInit ==
    /\ instances = [i \in {} |-> 0]
    /\ instanceCounter = 0
    /\ \E g \in 0..MaxUnitLimit, l \in 0..MaxUnitLimit :
         stack = <<[ctx |-> createExecutionContext([maxGas |-> g, maxExecutionMs |-> l]),
                    total |-> 0]>>
    /\ loads = {}
    /\ loadCounter = 0
    /\ now = 0
    /\ snaps = {}
    /\ ops = 0
    /\ event = Ev("init", 0, "none", TRUE, FALSE, "", "", 0, 0)

\* ctx.gasMeter.consume(amount)
TrackerConsume ==
    /\ ops < MaxUnitOps
    /\ ops' = ops + 1
    /\ \E amount \in 0..MaxAmount :
         LET r == consume(stack[1].ctx, amount) IN
         /\ stack' = <<[ctx |-> r.ctx, total |-> stack[1].total + amount]>>
         /\ event' = Ev("consume", 0, "none", ~r.raised, r.raised,
                        IF r.raised THEN "GasExhaustedSignal" ELSE "", "",
                        r.ctx.gasUsed, r.ctx.gasLimit)
    /\ UNCHANGED <<instances, instanceCounter, loads, loadCounter, now, snaps>>

\* ctx.timeoutChecker.start()
TrackerStart ==
    /\ ops < MaxUnitOps
    /\ ops' = ops + 1
    /\ stack' = <<[stack[1] EXCEPT !.ctx = start(@, now)]>>
    /\ event' = Ev("start", 0, "none", TRUE, FALSE, "", "", 0, 0)
    /\ UNCHANGED <<instances, instanceCounter, loads, loadCounter, now, snaps>>

\* ctx.timeoutChecker.check(); kind records whether the checker had already
\* timed out when it was called
TrackerCheck ==
    /\ ops < MaxUnitOps
    /\ ops' = ops + 1
    /\ LET r == check(stack[1].ctx, now) IN
       /\ stack' = <<[stack[1] EXCEPT !.ctx = r.ctx]>>
       /\ event' = Ev("check", 0, "none", ~r.raised, r.raised,
                      IF r.raised THEN "TimeoutSignal" ELSE "",
                      IF stack[1].ctx.timedOut THEN "timedOut" ELSE "fresh",
                      r.elapsed, r.ctx.limitMs)
    /\ UNCHANGED <<instances, instanceCounter, loads, loadCounter, now, snaps>>

\* the prologue of an import closure on the context, and the error code the
\* catch block of execute() makes of its signal; a, b record the gas used
\* before the call and the time elapsed at the call
TrackerHostCall ==
    /\ ops < MaxUnitOps
    /\ ops' = ops + 1
    /\ stack[1].ctx.started
    /\ LET hb == hostBoundary(TRUE, stack[1].ctx, now) IN
       /\ stack' = <<[stack[1] EXCEPT !.ctx = hb.ctx, !.total = @ + 1]>>
       /\ event' = Ev("hostCall", 0, "none", hb.signal = "none", FALSE,
                      IF hb.signal = "none" THEN ""
                      ELSE failureResult([signal |-> hb.signal, a |-> hb.a, b |-> hb.b]).code,
                      IF stack[1].ctx.exhausted \/ stack[1].ctx.timedOut THEN "spent" ELSE "fresh",
                      stack[1].ctx.gasUsed, now - stack[1].ctx.startTime)
    /\ UNCHANGED <<instances, instanceCounter, loads, loadCounter, now, snaps>>

\* the clock advances between calls
TrackerTick ==
    /\ now < MaxUnitTime
    /\ now' = now + 1
    /\ event' = Ev("tick", 0, "none", TRUE, FALSE, "", "", 0, 0)
    /\ UNCHANGED <<instances, instanceCounter, stack, loads, loadCounter, snaps, ops>>

\* the injected timer reports an earlier time than before
TrackerRewind ==
    /\ now > 0
    /\ now' = now - 1
    /\ event' = Ev("rewind", 0, "none", TRUE, FALSE, "", "", 0, 0)
    /\ UNCHANGED <<instances, instanceCounter, stack, loads, loadCounter, snaps, ops>>

TrackerNext ==
    \/ TrackerConsume
    \/ TrackerStart
    \/ TrackerCheck
    \/ TrackerHostCall
    \/ TrackerTick
    \/ TrackerRewind

TrackerSpec == TrackerInit /\ [][TrackerNext]_vars

\* ---------------------------------------------------------------------------
\* restoreSnapshot alone: one instance, arbitrary byte strings
\* ---------------------------------------------------------------------------
\* byte strings of every length up to a two-page snapshot, with each field
\* intact or not independently of the others
SnapshotInputs ==
    [byteLength : 0..(HEADER_SIZE + LEN_FIELD + 2 * PageSize + LEN_FIELD + StateJsonLen),
     magicOk : BOOLEAN,
     version : {SNAPSHOT_VERSION, SNAPSHOT_VERSION + 1},
     memoryLength : {PageSize, 2 * PageSize},
     memoryCell : {1},
     stateLength : {StateJsonLen},
     jsonOk : BOOLEAN,
     prngState : {createPrng(CfgB.deterministicSeed)},
     hasPrngState : BOOLEAN,
     timestamp : {CfgB.eventTimestamp},
     gasUsed : {1}]

DeserializerInit ==
    /\ \E status \in {"loaded", "suspended"}, pages \in 1..2 :
         instances = [i \in {1} |->
                         [createSandboxInstance(CfgB) EXCEPT !.status = status,
                                                             !.wasmModule = "modGrow",
                                                             !.wasmInstance = "modGrow",
                                                             !.memory.pages = pages]]
    /\ instanceCounter = 1
    /\ stack = <<>>
    /\ loads = {}
    /\ loadCounter = 0
    /\ now = 0
    /\ snaps = {}
    /\ ops = 0
    /\ event = Ev("init", 0, "none", TRUE, FALSE, "", "", 0, 0)

\* restoreSnapshot(state, data); snaps keeps the bytes handed in
DeserializerRestore ==
    /\ \E d \in SnapshotInputs :
         LET st == instances[1]
             why == restoreRefusal(st, d)
         IN
         /\ snaps' = {d}
         /\ IF why # "ok"
            THEN /\ event' = Ev("restore", 1, st.status, FALSE, FALSE, "SNAPSHOT_ERROR", why, 0, 0)
                 /\ UNCHANGED instances
            ELSE IF setStateThrows(d)
            THEN /\ instances' = [instances EXCEPT ![1] = memoryRestored(st, d)]
                 /\ event' = Ev("restore", 1, st.status, FALSE, TRUE, "TypeError", "", 0, 0)
            ELSE /\ instances' = [instances EXCEPT ![1] = restored(st, d)]
                 /\ event' = Ev("restore", 1, st.status, TRUE, FALSE, "", "", 0, 0)
    /\ UNCHANGED <<instanceCounter, stack, loads, loadCounter, now, ops>>

DeserializerNext == DeserializerRestore

DeserializerSpec == DeserializerInit /\ [][DeserializerNext]_vars

\* ---------------------------------------------------------------------------
\* execute() as one step: a call whose handlers return without calling back
\* into the sandbox
\* ---------------------------------------------------------------------------
\* a __get_random that draws from the timer instead of the instance's PRNG
importValue_FromClock(op, st, hv, tc) ==
    CASE op = "time" -> ToInt32(st.config.eventTimestamp)
      [] op = "rand" -> mulberry32Step(ToInt32(tc))[1]
      [] OTHER -> hv

\* the number an import closure returns to module code; hv is what the
\* user handler returns, tc the timer's reading during the call
importValue(op, st, hv, tc) ==
    CASE op = "time" -> ToInt32(st.config.eventTimestamp)
      [] op = "rand" -> mulberry32Step(st.prng)[1]
      [] OTHER -> hv

\* one operation of the exported function; r carries the instance state, the
\* execution context, the accumulator and what has been thrown
runOp(r, op, hv, tc) ==
    IF r.signal # "none" THEN r
    ELSE IF op \in {"time", "rand", "host"}
    THEN LET hb == hostBoundary(TRUE, r.ctx, tc) IN
         IF hb.signal # "none"
         THEN [r EXCEPT !.ctx = hb.ctx, !.signal = hb.signal, !.a = hb.a, !.b = hb.b]
         ELSE [r EXCEPT !.ctx = hb.ctx,
                        !.acc = importValue(op, r.st, hv, tc),
                        !.st = IF op = "rand"
                               THEN [r.st EXCEPT !.prng = mulberry32Step(r.st.prng)[2]]
                               ELSE r.st]
    ELSE IF op = "store" THEN [r EXCEPT !.st.memory.cell = r.acc]
    ELSE IF op = "grow"
    THEN IF r.st.memory.pages < r.st.memory.maxPages
         THEN [r EXCEPT !.acc = r.st.memory.pages, !.st.memory.pages = r.st.memory.pages + 1]
         ELSE [r EXCEPT !.acc = -1]
    ELSE [r EXCEPT !.signal = "error"]

\* the exported function from operation ip on
RECURSIVE runProgram(_, _, _, _, _)
runProgram(r, prog, ip, hv, tc) ==
    IF ip > Len(prog) THEN r
    ELSE CHOOSE out \in {runProgram(next, prog, ip + 1, hv, tc) :
                             next \in {runOp(r, prog[ip], hv, tc)}} : TRUE

\* execute() once the exported function has returned or thrown
executeExit(st, r, payload, t2) ==
    LET f == [json |-> payload = "json", acc |-> r.acc] IN
    IF r.signal # "none"
    THEN [st |-> catchExit(r.st, r.ctx, st.status, t2), ok |-> FALSE, value |-> 0,
          code |-> failureResult([signal |-> r.signal, a |-> r.a, b |-> r.b]).code]
    ELSE IF jsonResultThrows(r.st, f)
    THEN [st |-> catchExit(r.st, r.ctx, st.status, t2), ok |-> FALSE, value |-> 0,
          code |-> "WASM_TRAP"]
    ELSE IF memoryExceeded(r.st)
    THEN [st |-> returnExit(r.st, r.ctx, st.status, t2), ok |-> FALSE, value |-> 0,
          code |-> "MEMORY_EXCEEDED"]
    ELSE [st |-> returnExit(r.st, r.ctx, st.status, t2), ok |-> TRUE,
          value |-> resultValue(r.st, f), code |-> ""]

\* execute(state, action, payload) entered at timer reading t0, with the timer
\* at tc during the call and at t2 when the metrics are built: the state it
\* leaves and the result it returns
\* an execution whose gas counter starts at the instance's recorded gas_used
execute_CarryGas(st, action, payload, hv, t0, tc, t2) ==
    LET pre == executePrecondition(st, action)
        ctx == [start(createExecutionContext(st.config), t0)
                    EXCEPT !.gasUsed = st.metrics.gasUsed]
        entered == [st EXCEPT !.executionContext = 1, !.status = "running"]
    IN
    IF pre # "pass"
    THEN [st |-> st, ok |-> FALSE, value |-> 0,
          code |-> IF pre = "INSTANCE_DESTROYED" THEN pre ELSE "WASM_TRAP"]
    ELSE IF payload = "json" /\ (~st.wasmMemory \/ "__alloc" \notin Exports(st.wasmInstance))
    THEN [st |-> catchExit(entered, ctx, st.status, t2), ok |-> FALSE, value |-> 0,
          code |-> "WASM_TRAP"]
    ELSE CHOOSE x \in {executeExit(st, r, payload, t2) :
                          r \in {runProgram([st |-> IF payload = "json"
                                                    THEN [entered EXCEPT !.memory.cell = PayloadCell]
                                                    ELSE entered,
                                             ctx |-> ctx, acc |-> 0, signal |-> "none",
                                             a |-> 0, b |-> 0],
                                            Program(st.wasmInstance), 1, hv, tc)}} : TRUE

execute(st, action, payload, hv, t0, tc, t2) ==
    LET pre == executePrecondition(st, action)
        ctx == start(createExecutionContext(st.config), t0)
        entered == [st EXCEPT !.executionContext = 1, !.status = "running"]
    IN
    IF pre # "pass"
    THEN [st |-> st, ok |-> FALSE, value |-> 0,
          code |-> IF pre = "INSTANCE_DESTROYED" THEN pre ELSE "WASM_TRAP"]
    ELSE IF payload = "json" /\ (~st.wasmMemory \/ "__alloc" \notin Exports(st.wasmInstance))
    THEN [st |-> catchExit(entered, ctx, st.status, t2), ok |-> FALSE, value |-> 0,
          code |-> "WASM_TRAP"]
    ELSE CHOOSE x \in {executeExit(st, r, payload, t2) :
                          r \in {runProgram([st |-> IF payload = "json"
                                                    THEN [entered EXCEPT !.memory.cell = PayloadCell]
                                                    ELSE entered,
                                             ctx |-> ctx, acc |-> 0, signal |-> "none",
                                             a |-> 0, b |-> 0],
                                            Program(st.wasmInstance), 1, hv, tc)}} : TRUE

\* a configuration whose memory cap is a whole number of pages above the
\* initial size, so that a module can grow its memory and stay under the cap
CfgC ==
    [maxMemoryBytes |-> 2 * PageSize, maxGas |-> 2, maxExecutionMs |-> 1,
     hostFunctions |-> [k \in {"h"} |-> "h"], deterministicSeed |-> 12345,
     eventTimestamp |-> 7]

\* ---------------------------------------------------------------------------
\* Replay: one instance, a snapshot of it, executions and restores.  Instance
\* 1 is the instance; entry 2 keeps the state it had when the snapshot was
\* taken.
\* ---------------------------------------------------------------------------
ReplayModules == {"modHost", "modGrow", "modJson"}

ReplayInit ==
    /\ \E c \in {CfgB, CfgC}, m \in ReplayModules :
         instances = [i \in {1, 2} |-> instantiated(createSandboxInstance(c), m)]
    /\ instanceCounter = 1
    /\ stack = <<>>
    /\ loads = {}
    /\ loadCounter = 0
    /\ now = 0
    /\ snaps = {}
    /\ ops = 0
    /\ event = Ev("init", 0, "none", TRUE, FALSE, "", "", 0, 0)

ReplaySnapshot ==
    /\ ops < MaxOps
    /\ ops' = ops + 1
    /\ snapshotRefusal(instances[1]) = "ok"
    /\ snaps' = {createSnapshot(instances[1])}
    /\ instances' = [instances EXCEPT ![2] = instances[1]]
    /\ event' = Ev("snapshot", 1, instances[1].status, TRUE, FALSE, "", "",
                   createSnapshot(instances[1]).memoryLength, createSnapshot(instances[1]).gasUsed)
    /\ UNCHANGED <<instanceCounter, stack, loads, loadCounter, now>>

ReplayExecute ==
    /\ ops < MaxOps
    /\ ops' = ops + 1
    /\ \E action \in ActionNames, payload \in Payloads, hv \in HandlerResults, t2 \in TimerReadings :
         \E x \in {execute(instances[1], action, payload, hv, now, now, t2)} :
         /\ instances' = [instances EXCEPT ![1] = x.st]
         /\ now' = t2
         /\ event' = [EvX("execute", 1, instances[1].status, x.ok, FALSE, x.code, "",
                           x.value, 0, "return") EXCEPT !.action = action]
    /\ UNCHANGED <<instanceCounter, stack, loads, loadCounter, snaps>>

ReplayRestore ==
    /\ ops < MaxOps
    /\ ops' = ops + 1
    /\ \E s \in snaps :
         LET st == instances[1]
             why == restoreRefusal(st, s)
         IN
         IF why # "ok"
         THEN /\ event' = Ev("restore", 1, st.status, FALSE, FALSE, "SNAPSHOT_ERROR", why, 0, 0)
              /\ UNCHANGED instances
         ELSE /\ instances' = [instances EXCEPT ![1] = restored(st, s)]
              /\ event' = Ev("restore", 1, st.status, TRUE, FALSE, "", "", 0, 0)
    /\ UNCHANGED <<instanceCounter, stack, loads, loadCounter, now, snaps>>

ReplayNext ==
    \/ ReplaySnapshot
    \/ ReplayExecute
    \/ ReplayRestore

ReplaySpec == ReplayInit /\ [][ReplayNext]_vars

\* ---------------------------------------------------------------------------
\* Twins: instances 1 and 2 are created from the same configuration and
\* loaded with the same binary; instance 3 is another instance of the registry
\* ---------------------------------------------------------------------------
TwinInit ==
    /\ \E c \in {CfgA, CfgB, CfgC}, m \in ReplayModules :
         instances = [i \in {1, 2, 3} |->
                         IF i = 3 THEN instantiated(createSandboxInstance(CfgB), "modHost")
                         ELSE instantiated(createSandboxInstance(c), m)]
    /\ instanceCounter = 3
    /\ stack = <<>>
    /\ loads = {}
    /\ loadCounter = 0
    /\ now = 0
    /\ snaps = {}
    /\ ops = 0
    /\ event = Ev("init", 0, "none", TRUE, FALSE, "", "", 0, 0)

\* the same call is made on instance 1 and then on instance 2; each call finds
\* the timer d1, d2 later at its import calls than at its entry.  The event
\* keeps both results: ok, code, a of instance 1 and kind (the code), b of
\* instance 2.
TwinExecute ==
    /\ ops < MaxTwinOps
    /\ ops' = ops + 1
    /\ \E action \in ActionNames, payload \in Payloads, hv \in HandlerResults,
          d1 \in 0..MaxTime, d2 \in 0..MaxTime :
         \E x1 \in {execute(instances[1], action, payload, hv, now, now + d1, now + d1)},
            x2 \in {execute(instances[2], action, payload, hv,
                             now + d1, now + d1 + d2, now + d1 + d2)} :
         /\ now + d1 + d2 <= 2 * MaxTime
         /\ instances' = [instances EXCEPT ![1] = x1.st, ![2] = x2.st]
         /\ now' = now + d1 + d2
         /\ event' = [EvX("executeBoth", 1, instances[1].status, x1.ok, FALSE, x1.code,
                           IF x2.ok THEN "ok" ELSE x2.code, x1.value, x2.value, "return")
                         EXCEPT !.action = action]
    /\ UNCHANGED <<instanceCounter, stack, loads, loadCounter, snaps>>

\* a call on the other instance
TwinOther ==
    /\ ops < MaxTwinOps
    /\ ops' = ops + 1
    /\ \E action \in ActionNames, payload \in Payloads, hv \in HandlerResults :
         \E x \in {execute(instances[3], action, payload, hv, now, now, now)} :
         /\ instances' = [instances EXCEPT ![3] = x.st]
         /\ event' = [EvX("execute", 3, instances[3].status, x.ok, FALSE, x.code, "",
                           x.value, 0, "return") EXCEPT !.action = action]
    /\ UNCHANGED <<instanceCounter, stack, loads, loadCounter, now, snaps>>

TwinNext ==
    \/ TwinExecute
    \/ TwinOther

TwinSpec == TwinInit /\ [][TwinNext]_vars

\* ---------------------------------------------------------------------------
\* Determinism validator: instance 1 is validated; entry 2 keeps the state
\* instance 1 had when the last validation began
\* ---------------------------------------------------------------------------
MaxValidatorOps == 3

captureState(st) ==
    [hasMemory |-> st.wasmMemory, memoryCell |-> st.memory.cell,
     prngState |-> st.prng,
     gasUsed |-> st.metrics.gasUsed, executionMs |-> st.metrics.executionMs]

\* target.set(snapshot) writes the captured bytes over the start of the
\* buffer the memory has now; the size of the memory is left as it is
restoreState(st, captured) ==
    [st EXCEPT !.memory.cell = IF captured.hasMemory /\ st.wasmMemory
                               THEN captured.memoryCell ELSE @,
               !.prng = ToInt32(captured.prngState),
               !.metrics.gasUsed = captured.gasUsed,
               !.metrics.executionMs = captured.executionMs]

\* the serialized results are equal
compareResults(first, second) ==
    /\ first.ok = second.ok
    /\ first.value = second.value
    /\ first.code = second.code

\* hv1, hv2: what the handler returns in each execution; the timer reads t0
\* at the first entry, t1 from the first call on, t2 from the second call on
validateDeterminism(st, action, payload, hv1, hv2, t0, t1, t2) ==
    LET captured == captureState(st) IN
    CHOOSE v \in {[st |-> restoreState(second.st, captured),
                   deterministic |-> compareResults(first, second),
                   firstResult |-> first, secondResult |-> second] :
                     second \in {execute(restoreState(first.st, captured),
                                         action, payload, hv2, t1, t2, t2) :
                                     first \in {execute(st, action, payload,
                                                        hv1, t0, t1, t1)}},
                     first \in {execute(st, action, payload, hv1, t0, t1, t1)}} : TRUE

ValidatorInit ==
    /\ \E c \in {CfgA, CfgB, CfgC}, m \in ValidModules :
         instances = [i \in {1, 2} |-> instantiated(createSandboxInstance(c), m)]
    /\ instanceCounter = 1
    /\ stack = <<>>
    /\ loads = {}
    /\ loadCounter = 0
    /\ now = 0
    /\ snaps = {}
    /\ ops = 0
    /\ event = Ev("init", 0, "none", TRUE, FALSE, "", "", 0, 0)

\* an ordinary call between validations
ValidatorExecute ==
    /\ ops < MaxValidatorOps
    /\ ops' = ops + 1
    /\ \E action \in ActionNames, payload \in Payloads, hv \in HandlerResults, t2 \in TimerReadings :
         \E x \in {execute(instances[1], action, payload, hv, now, now, t2)} :
         /\ instances' = [instances EXCEPT ![1] = x.st]
         /\ now' = t2
         /\ event' = [EvX("execute", 1, instances[1].status, x.ok, FALSE, x.code, "",
                           x.value, 0, "return") EXCEPT !.action = action]
    /\ UNCHANGED <<instanceCounter, stack, loads, loadCounter, snaps>>

\* the event keeps the report: ok is `deterministic`, code and a the first
\* result, kind and b the second
ValidatorValidate ==
    /\ ops < MaxValidatorOps
    /\ ops' = ops + 1
    /\ \E action \in ActionNames, payload \in Payloads, hv1 \in HandlerResults,
          hv2 \in HandlerResults, t1 \in now..MaxTime :
         \E t2 \in t1..MaxTime :
         \E v \in {validateDeterminism(instances[1], action, payload, hv1, hv2, now, t1, t2)} :
         /\ instances' = [instances EXCEPT ![1] = v.st, ![2] = instances[1]]
         /\ now' = t2
         /\ event' = [EvX("validate", 1, instances[1].status, v.deterministic, FALSE,
                           v.firstResult.code, v.secondResult.code,
                           v.firstResult.value, v.secondResult.value, "return")
                         EXCEPT !.action = action]
    /\ UNCHANGED <<instanceCounter, stack, loads, loadCounter, snaps>>

ValidatorNext ==
    \/ ValidatorExecute
    \/ ValidatorValidate

ValidatorSpec == ValidatorInit /\ [][ValidatorNext]_vars

\* ---------------------------------------------------------------------------
\* Transfer: two loaded instances of one binary whose configurations differ
\* in the injected timestamp; a snapshot of either is restored into either
\* ---------------------------------------------------------------------------
MaxTransferOps == 4

CfgD == [CfgA EXCEPT !.eventTimestamp = 9]

TransferInit ==
    /\ \E m \in ReplayModules :
         instances = [i \in {1, 2} |->
                         instantiated(createSandboxInstance(IF i = 1 THEN CfgA ELSE CfgD), m)]
    /\ instanceCounter = 2
    /\ stack = <<>>
    /\ loads = {}
    /\ loadCounter = 0
    /\ now = 0
    /\ snaps = {}
    /\ ops = 0
    /\ event = Ev("init", 0, "none", TRUE, FALSE, "", "", 0, 0)

TransferExecute ==
    /\ ops < MaxTransferOps
    /\ ops' = ops + 1
    /\ \E i \in Registered, action \in ActionNames, payload \in Payloads,
          hv \in HandlerResults, t2 \in TimerReadings :
         \E x \in {execute(instances[i], action, payload, hv, now, now, t2)} :
         /\ instances' = [instances EXCEPT ![i] = x.st]
         /\ now' = t2
         /\ event' = [EvX("execute", i, instances[i].status, x.ok, FALSE, x.code, "",
                           x.value, 0, "return") EXCEPT !.action = action]
    /\ UNCHANGED <<instanceCounter, stack, loads, loadCounter, snaps>>

TransferSnapshot ==
    /\ ops < MaxTransferOps
    /\ ops' = ops + 1
    /\ \E i \in Registered :
         /\ snapshotRefusal(instances[i]) = "ok"
         /\ snaps' = {createSnapshot(instances[i])}
         /\ event' = Ev("snapshot", i, instances[i].status, TRUE, FALSE, "", "",
                        createSnapshot(instances[i]).memoryLength,
                        createSnapshot(instances[i]).gasUsed)
    /\ UNCHANGED <<instances, instanceCounter, stack, loads, loadCounter, now>>

TransferRestore ==
    /\ ops < MaxTransferOps
    /\ ops' = ops + 1
    /\ \E i \in Registered, s \in snaps :
         LET st == instances[i]
             why == restoreRefusal(st, s)
         IN
         IF why # "ok"
         THEN /\ event' = Ev("restore", i, st.status, FALSE, FALSE, "SNAPSHOT_ERROR", why, 0, 0)
              /\ UNCHANGED instances
         ELSE /\ instances' = [instances EXCEPT ![i] = restored(st, s)]
              /\ event' = Ev("restore", i, st.status, TRUE, FALSE, "", "", 0, 0)
    /\ UNCHANGED <<instanceCounter, stack, loads, loadCounter, now, snaps>>

TransferNext ==
    \/ TransferExecute
    \/ TransferSnapshot
    \/ TransferRestore

TransferSpec == TransferInit /\ [][TransferNext]_vars

\* ---------------------------------------------------------------------------
\* Properties
\* ---------------------------------------------------------------------------
\* the last execute() result is that of a call that passed its guards
ExecuteRan == event.op = "execute" /\ event.cause # "precondition"

\* C1 (as stated): while an execute() that passed its guards is in progress
\* the instance's status is `running`, and when it returns the status equals
\* the status saved at entry.
C1_Original ==
    /\ \A k \in 1..Len(stack) : instances[stack[k].inst].status = "running"
    /\ ExecuteRan => instances[event.inst].status = event.prev

\* C1 (amended): execute() sets the status to `running` at entry; while the
\* exported function runs the status is `running`, or `destroyed` once a host
\* handler has destroyed the instance during the call; when execute() returns,
\* on every exit path, the status equals the status saved at entry (`loaded`,
\* or `running` for a re-entrant call).
C1_StatusRestored ==
    /\ \A k \in 1..Len(stack) : instances[stack[k].inst].status \in {"running", "destroyed"}
    /\ event.op = "executeEnter" => instances[event.inst].status = "running"
    /\ ExecuteRan => /\ instances[event.inst].status = event.prev
                     /\ event.prev \in {"loaded", "running"}

C1_Witness ==
    /\ event.op = "execute"
    /\ event.code = "GAS_EXHAUSTED"
    /\ event.prev = "loaded"
    /\ instances[event.inst].status = "loaded"

\* C2: after an execute() that passed its guards returns, and whenever no
\* execute() is in progress on an instance, the instance's executionContext
\* is null.
C2_ContextDetached ==
    /\ \A i \in Registered : FramesOf(i) = {} => instances[i].executionContext = NoCtx
    /\ ExecuteRan => instances[event.inst].executionContext = NoCtx

C2_Witness ==
    /\ event.op = "execute"
    /\ event.code = "MEMORY_EXCEEDED"
    /\ stack = <<>>
    /\ instances[event.inst].executionContext = NoCtx

C4_FailureMapping ==
    event.op = "execute" =>
        LET st == instances[event.inst] IN
        /\ ~event.raised
        /\ event.cause = "gas" <=> event.code = "GAS_EXHAUSTED"
        /\ event.cause = "timeout" <=> event.code = "TIMEOUT"
        /\ event.cause = "error" <=> (event.code = "WASM_TRAP" /\ event.kind = "runtime_error")
        /\ event.cause = "gas" => /\ event.a = st.metrics.gasUsed
                                  /\ event.b = st.config.maxGas
        /\ event.cause = "timeout" => /\ event.b = st.config.maxExecutionMs
                                      /\ event.a > event.b
                                      /\ event.a <= st.metrics.executionMs

C4_Witness ==
    /\ event.op = "execute"
    /\ event.cause = "timeout"
    /\ event.code = "TIMEOUT"

\* C5 (as stated): once an instance's status is `destroyed` it never changes.
C5_Original ==
    [][\A i \in Registered :
          instances[i].status = "destroyed" => instances'[i].status = "destroyed"]_vars

\* C6: an instance whose status is `destroyed` has null module, instance and
\* memory handles.
C6_DestroyedHandlesNull ==
    \A i \in Registered :
        instances[i].status = "destroyed" =>
            /\ instances[i].wasmModule = "null"
            /\ instances[i].wasmInstance = "null"
            /\ ~instances[i].wasmMemory

C6_Witness ==
    /\ event.op = "destroy"
    /\ event.prev = "loaded"
    /\ instances[event.inst].status = "destroyed"

\* C7 (as stated): after destroy() on a non-destroyed instance its
\* executionContext is null.
C7_Original ==
    (event.op = "destroy" /\ event.prev # "destroyed") =>
        instances[event.inst].executionContext = NoCtx

\* C8: destroy() on an instance that is already destroyed does not raise and
\* changes neither the instance nor the registry.
C8_SecondDestroyNoOp ==
    [][(event'.op = "destroy" /\ event'.prev = "destroyed") =>
          /\ ~event'.raised
          /\ UNCHANGED <<instances, instanceCounter, stack, loads, snaps>>]_vars

C8_Witness ==
    /\ event.op = "destroy"
    /\ event.prev = "destroyed"
    /\ ~event.raised

\* C9 (as stated): load, execute, snapshot, restore and getMetrics invoked on
\* a destroyed instance all fail with INSTANCE_DESTROYED.
C9_Original ==
    (event.op \in {"load", "execute", "snapshot", "restore", "getMetrics"}
        /\ event.prev = "destroyed") =>
        (~event.ok /\ event.code = "INSTANCE_DESTROYED")

\* C9 (amended): every operation other than destroy() invoked on a destroyed
\* instance fails; execute returns an INSTANCE_DESTROYED error result,
\* createSnapshot and restoreSnapshot return a SNAPSHOT_ERROR whose message
\* names the destroyed instance, load and getMetrics raise a plain error
\* naming the destroyed instance.
C9_DestroyedRejects ==
    (event.op \in {"load", "execute", "snapshot", "restore", "getMetrics"}
        /\ event.prev = "destroyed") =>
        /\ ~event.ok
        /\ event.op = "execute" => (~event.raised /\ event.code = "INSTANCE_DESTROYED")
        /\ event.op \in {"snapshot", "restore"} =>
               (~event.raised /\ event.code = "SNAPSHOT_ERROR" /\ event.kind = "destroyed")
        /\ event.op \in {"load", "getMetrics"} =>
               (event.raised /\ event.code = "Error" /\ event.kind = "destroyed")

C9_Witness ==
    /\ event.op = "snapshot"
    /\ event.prev = "destroyed"
    /\ event.code = "SNAPSHOT_ERROR"

C10_Step ==
    LET e == event' IN
    /\ e.op = "executeEnter" => e.prev \in {"loaded", "running"}
    /\ (e.op = "execute" /\ e.prev \notin {"loaded", "running"}) =>
           /\ e.cause = "precondition"
           /\ UNCHANGED <<instances, stack, snaps>>
    /\ (e.op \in {"snapshot", "restore"} /\ e.prev \notin {"loaded", "suspended"}) =>
           /\ ~e.ok
           /\ UNCHANGED <<instances, stack, snaps>>

StatusEdge(a, b, op) ==
    \/ a = "created" /\ b = "loaded" /\ op = "loadSettled"
    \/ a = "loaded" /\ b = "running" /\ op = "executeEnter"
    \/ a = "running" /\ b = "loaded" /\ op = "execute"
    \/ a = "suspended" /\ b = "loaded" /\ op = "restore"
    \/ a # "destroyed" /\ b = "destroyed" /\ op = "destroy"

\* C11 (as stated): an operation changes an instance's status only along
\* created->loaded (load), loaded->running (execute entry), running->loaded
\* (execute exit), suspended->loaded (restore), non-destroyed->destroyed
\* (destroy).
C11_Original ==
    [][event'.op # "suspend" =>
          \A i \in Registered :
              instances[i].status # instances'[i].status =>
                  StatusEdge(instances[i].status, instances'[i].status, event'.op)]_vars

\* C12: execute() reports the first failing precondition in the order
\* destroyed (INSTANCE_DESTROYED), status not loaded/running (WASM_TRAP
\* 'invalid_state'), null instance handle (WASM_TRAP 'no_instance'), missing
\* export (WASM_TRAP 'missing_export'); a call whose preconditions all hold
\* goes on to the exported function.
C12_PreconditionOrder ==
    LET st == instances[event.inst] IN
    /\ (event.op = "execute" /\ event.cause = "precondition") =>
           /\ ~event.ok
           /\ IF event.prev = "destroyed"
              THEN event.code = "INSTANCE_DESTROYED"
              ELSE IF event.prev \notin {"loaded", "running"}
              THEN event.code = "WASM_TRAP" /\ event.kind = "invalid_state"
              ELSE IF st.wasmInstance = "null"
              THEN event.code = "WASM_TRAP" /\ event.kind = "no_instance"
              ELSE /\ event.code = "WASM_TRAP" /\ event.kind = "missing_export"
                   /\ event.action \notin Exports(st.wasmInstance)
    /\ event.op = "executeEnter" =>
           /\ event.prev \in {"loaded", "running"}
           /\ st.wasmInstance # "null"
           /\ event.action \in Exports(st.wasmInstance)

\* a created instance fails two preconditions at once (status, handle): the
\* status is the one reported
C12_Witness ==
    /\ event.op = "execute"
    /\ event.prev = "created"
    /\ instances[event.inst].wasmInstance = "null"
    /\ event.action = "nope"
    /\ event.kind = "invalid_state"

\* the number of import calls (host function, __get_time, __get_random) the
\* exported function of module m makes
RECURSIVE ImportCalls(_)
ImportCalls(prog) ==
    IF prog = <<>> THEN 0
    ELSE (IF prog[1] \in {"host", "rand", "time"} THEN 1 ELSE 0) + ImportCalls(Tail(prog))

\* C13 (as stated): every call of an import during an execution adds exactly
\* 1 to that execution's gasUsed, and an execution that succeeds after n such
\* calls reports gasUsed = n.
C13_Original ==
    [][/\ (event'.op = "hostCall" /\ stack' # stack) =>
              stack'[Len(stack)].ctx.gasUsed = stack[Len(stack)].ctx.gasUsed + 1
       /\ (event'.op = "execute" /\ event'.ok /\ Len(stack') < Len(stack)) =>
              event'.b = ImportCalls(Program(stack[Len(stack)].module))]_vars

\* a step in which an import call of the innermost frame raised a gas or
\* deadline signal: the handler was not entered, the PRNG did not advance and
\* the execution ended there
SignalEndsExecution ==
    (event'.op = "execute" /\ event'.cause \in {"gas", "timeout"} /\ stack' # stack) =>
        /\ Len(stack') = Len(stack) - 1
        /\ ~stack[Len(stack)].inHandler
        /\ instances'[event'.inst].prng = instances[event'.inst].prng
        /\ ~event'.ok

\* C14 (as stated): at every import call the gas charge and the deadline
\* check happen before the handler body runs (or the PRNG advances); if
\* either raises, the handler is not invoked, the PRNG is not advanced and
\* nothing more runs in that execution.
C14_Original ==
    [][/\ (event'.op = "hostCall" /\ stack' # stack) =>
              LET before == stack[Len(stack)].ctx
                  after == stack'[Len(stack)].ctx
              IN  /\ after.gasUsed = before.gasUsed + 1
                  /\ after.gasUsed <= after.gasLimit
                  /\ now - after.startTime <= after.limitMs
       /\ SignalEndsExecution]_vars

\* C15: an execution that returns success reports gasUsed <= gasLimit, in
\* its result and in the metrics it leaves.
C15_SuccessWithinBudget ==
    (event.op = "execute" /\ event.ok) =>
        /\ event.b <= instances[event.inst].config.maxGas
        /\ instances[event.inst].metrics.gasUsed <= instances[event.inst].metrics.gasLimit

\* a success that used the whole budget
C15_Witness ==
    /\ event.op = "execute"
    /\ event.ok
    /\ event.b = instances[event.inst].config.maxGas
    /\ event.b = 2

\* C16: a GAS_EXHAUSTED result reports a gasUsed strictly greater than the
\* gasLimit it reports, which is the configured limit.
C16_ExhaustedReportsExcess ==
    (event.op = "execute" /\ event.code = "GAS_EXHAUSTED") =>
        /\ ~event.ok
        /\ event.b = instances[event.inst].config.maxGas
        /\ event.a > event.b

C16_Witness ==
    /\ event.op = "execute"
    /\ event.code = "GAS_EXHAUSTED"
    /\ event.a = event.b + 1

\* C17: the gas meter raises exactly when the total of the amounts consumed
\* exceeds the limit: while the total is at most the limit (equal included)
\* no consume raises, the meter is not exhausted and gasUsed is the total;
\* the first consume that takes the total above the limit raises.
C17_RaisesExactlyAboveLimit ==
    LET c == stack[1].ctx IN
    /\ stack[1].total <= c.gasLimit => (~c.exhausted /\ c.gasUsed = stack[1].total)
    /\ stack[1].total > c.gasLimit => c.exhausted
    /\ event.op = "consume" => (event.raised <=> stack[1].total > c.gasLimit)

\* the budget used exactly, in more than one call, without a raise
C17_Witness ==
    /\ event.op = "consume"
    /\ ~event.raised
    /\ stack[1].total = stack[1].ctx.gasLimit
    /\ stack[1].total = 2
    /\ ops >= 2

\* C18: a check() on a started checker that had not timed out raises exactly
\* when the time elapsed since start() is greater than the limit.
C18_RaisesExactlyPastLimit ==
    LET c == stack[1].ctx IN
    (event.op = "check" /\ event.kind = "fresh" /\ c.started) =>
        /\ event.raised <=> (now - c.startTime > c.limitMs)
        /\ event.raised <=> c.timedOut

\* elapsed == limit passes
C18_Witness ==
    /\ event.op = "check"
    /\ event.kind = "fresh"
    /\ stack[1].ctx.started
    /\ stack[1].ctx.startTime = 1
    /\ now - stack[1].ctx.startTime = stack[1].ctx.limitMs
    /\ stack[1].ctx.limitMs = 2
    /\ ~event.raised

\* the step in which the exported function of the innermost frame has
\* returned normally and execute() returns
ReturnedNormally ==
    /\ stack # <<>>
    /\ ~stack[Len(stack)].inHandler
    /\ stack[Len(stack)].ip > Len(Program(stack[Len(stack)].module))
    /\ Len(stack') < Len(stack)
    /\ event'.op = "execute"

\* C19 (as stated): after the exported function returns normally, execute()
\* returns MEMORY_EXCEEDED exactly when the memory's current size is greater
\* than maxMemoryBytes, and never returns success while it is.
C19_Original ==
    [][ReturnedNormally =>
          LET st == instances[stack[Len(stack)].inst] IN
          /\ event'.code = "MEMORY_EXCEEDED" <=>
                 getMemoryUsageBytes(st) > st.config.maxMemoryBytes
          /\ event'.ok => getMemoryUsageBytes(st) <= st.config.maxMemoryBytes]_vars

\* C19 (amended): after the exported function returns normally and its
\* result has been decoded without error, execute() returns MEMORY_EXCEEDED
\* (carrying the size and the cap) exactly when the size of the memory the
\* instance holds (0 when it holds none) is greater than maxMemoryBytes, and
\* success otherwise; an error raised while decoding the result gives
\* WASM_TRAP 'runtime_error' whatever the memory size.  No success is returned
\* while that size exceeds the cap.
C19_MemoryCheck ==
    [][ReturnedNormally =>
          LET st == instances[stack[Len(stack)].inst]
              used == getMemoryUsageBytes(st)
              cap == st.config.maxMemoryBytes
          IN
          /\ event'.cause \in {"return", "error"}
          /\ event'.cause = "error" =>
                 event'.code = "WASM_TRAP" /\ event'.kind = "runtime_error"
          /\ event'.cause = "return" =>
                 /\ event'.code = "MEMORY_EXCEEDED" <=> used > cap
                 /\ event'.ok <=> used <= cap
                 /\ used > cap => (event'.a = used /\ event'.b = cap)
          /\ event'.ok => used <= cap]_vars

\* a memory.grow the engine allowed took the memory above the caller's cap
C19_Witness ==
    /\ event.op = "execute"
    /\ event.cause = "return"
    /\ event.code = "MEMORY_EXCEEDED"
    /\ event.a = 2 * PageSize
    /\ event.a > event.b

\* C20 (as stated): after any execute() that ran the exported function,
\* whatever its outcome, the instance's metrics hold that execution's
\* gasUsed, its elapsed time and the current memory size.
C20_Original ==
    [][(event'.op = "execute" /\ Len(stack') < Len(stack)) =>
          LET f == stack[Len(stack)]
              m == instances'[f.inst].metrics
          IN
          /\ m.gasUsed \in {f.ctx.gasUsed, f.ctx.gasUsed + 1}
          /\ event'.cause = "gas" => m.gasUsed = event'.a
          /\ event'.cause = "return" => m.gasUsed = f.ctx.gasUsed
          /\ m.executionMs = now' - f.ctx.startTime
          /\ m.memoryUsedBytes = getMemoryUsageBytes(instances'[f.inst])]_vars

C22_Original ==
    \A i \in Registered :
        instances[i].status = "loaded" =>
            \A imp \in Imports(instances[i].wasmInstance) :
                /\ imp[1] = "env"
                /\ imp[2] \in {"memory", "__get_time", "__get_random"}
                              \cup DOMAIN instances[i].config.hostFunctions
                              \cup {instances[i].config.hostFunctions[k] :
                                        k \in DOMAIN instances[i].config.hostFunctions}

\* C23 (as stated): every host-function import of a loaded instance's module
\* is bound under the name field of a declared host function, not under its
\* map key.
C23_Original ==
    \A i \in Registered :
        instances[i].status = "loaded" =>
            \A imp \in Imports(instances[i].wasmInstance) :
                (imp[1] = "env" /\ imp[2] \notin {"memory", "__get_time", "__get_random"}
                                            \cup ObjectPrototype)
                    => imp[2] \in {instances[i].config.hostFunctions[k] :
                                      k \in DOMAIN instances[i].config.hostFunctions}

C25_ValidationOrder ==
    (event.op = "restore" /\ instances[1].wasmMemory) =>
        \A d \in snaps :
            LET memEnd == HEADER_SIZE + LEN_FIELD + d.memoryLength
                first ==
                    IF d.byteLength < HEADER_SIZE THEN 1
                    ELSE IF ~d.magicOk THEN 2
                    ELSE IF d.version # 1 THEN 3
                    ELSE IF d.byteLength < memEnd THEN 4
                    ELSE IF d.byteLength < memEnd + LEN_FIELD + d.stateLength THEN 5
                    ELSE IF ~d.jsonOk THEN 6
                    ELSE IF d.memoryLength # instances[1].memory.pages * PageSize THEN 7
                    ELSE 0
                reported ==
                    CASE event.kind = "header" -> 1
                      [] event.kind = "magic" -> 2
                      [] event.kind = "version" -> 3
                      [] event.kind \in {"truncated_memory_length", "truncated_memory"} -> 4
                      [] event.kind \in {"truncated_state_length", "truncated_state"} -> 5
                      [] event.kind = "corrupted" -> 6
                      [] event.kind = "memory_size" -> 7
                      [] OTHER -> 0
            IN /\ reported = first
               /\ first # 0 => (~event.ok /\ event.code = "SNAPSHOT_ERROR")
               /\ first = 0 => event.code # "SNAPSHOT_ERROR"

\* bytes with bad magic, an unsupported version, unparseable state and the
\* wrong memory length were refused for their magic bytes
C25_Witness ==
    /\ event.op = "restore"
    /\ event.kind = "magic"
    /\ \E d \in snaps :
         /\ ~d.magicOk
         /\ d.version # SNAPSHOT_VERSION
         /\ ~d.jsonOk
         /\ d.memoryLength # instances[1].memory.pages * PageSize

\* C26 (as stated): a restore that fails leaves the instances as they were.
C26_Original ==
    [][(event'.op = "restore" /\ ~event'.ok /\ ops' # ops) => instances' = instances]_vars

\* C27: after a successful restore of a snapshot the instance's memory
\* contents, PRNG state and gas_used are those the snapshot was taken with,
\* and its status is loaded.
C27_RoundTrip ==
    (event.op = "restore" /\ event.ok) =>
        \E s \in snaps :
            LET st == instances[event.inst] IN
            /\ s.memoryLength = st.memory.pages * PageSize
            /\ st.memory.cell = s.memoryCell
            /\ st.prng = s.prngState
            /\ st.metrics.gasUsed = s.gasUsed
            /\ st.status = "loaded"

\* an instance that has executed since its snapshot (time was spent) is back
\* at the snapshot's fresh memory, PRNG state and gas counter
C27_Witness ==
    /\ event.op = "restore"
    /\ event.ok
    /\ LET st == instances[event.inst] IN
       /\ st.wasmInstance = "modHost"
       /\ st.metrics.executionMs > 0
       /\ st.metrics.gasUsed = 0
       /\ st.prng = createPrng(st.config.deterministicSeed)
       /\ st.memory.cell = 0

C30_Isolation ==
    [][\A j \in DOMAIN instances :
          (j \in DOMAIN instances' /\ instances'[j] # instances[j]) => j = event'.inst]_vars

\* an execution has drawn from the PRNG of its instance while another loaded
\* instance of the same seed still holds its initial PRNG state
C30_Witness ==
    /\ event.op = "execute"
    /\ event.ok
    /\ \E j \in DOMAIN instances :
         /\ j # event.inst
         /\ instances[j].status = "loaded"
         /\ instances[j].prng = createPrng(instances[j].config.deterministicSeed)
         /\ instances[event.inst].prng # createPrng(instances[event.inst].config.deterministicSeed)

\* C31: create() returns an id no instance created before it has, and adds a
\* registry entry without replacing or changing an existing one.
C31_UniqueIds ==
    [][(event'.op = "create" /\ ops' # ops) =>
          /\ event'.inst \notin DOMAIN instances
          /\ DOMAIN instances' = DOMAIN instances \cup {event'.inst}
          /\ \A j \in DOMAIN instances : instances'[j] = instances[j]
          /\ instances'[event'.inst].status = "created"]_vars

\* a second instance was created next to one that has been loaded
C31_Witness ==
    /\ event.op = "create"
    /\ Cardinality(DOMAIN instances) = 2
    /\ \E j \in DOMAIN instances : j # event.inst /\ instances[j].status = "loaded"

\* C32: a host call that would both exceed the gas budget and find the
\* deadline passed ends the execution with GAS_EXHAUSTED, not TIMEOUT.
C32_GasFiresFirst ==
    (/\ event.op = "hostCall"
     /\ event.kind = "fresh"
     /\ event.a + 1 > stack[1].ctx.gasLimit
     /\ event.b > stack[1].ctx.limitMs) => event.code = "GAS_EXHAUSTED"

\* a host call made with the budget used up and the deadline passed
C32_Witness ==
    /\ event.op = "hostCall"
    /\ event.kind = "fresh"
    /\ event.a = stack[1].ctx.gasLimit
    /\ event.a > 0
    /\ event.b > stack[1].ctx.limitMs
    /\ event.code = "GAS_EXHAUSTED"

\* C33 (as stated): every consume that raises has marked the meter exhausted
\* and added its amount, so that gasUsed is the total of the amounts passed,
\* and the signal carries that gasUsed and the limit.
C33_Original ==
    (event.op = "consume" /\ event.raised) =>
        /\ stack[1].ctx.exhausted
        /\ stack[1].ctx.gasUsed = stack[1].total
        /\ event.a = stack[1].ctx.gasUsed
        /\ event.b = stack[1].ctx.gasLimit

\* C34: a check() on a checker that has timed out raises whatever the timer
\* reads, and start() clears the timed-out flag.
C34_TimeoutSticky ==
    /\ (event.op = "check" /\ event.kind = "timedOut") =>
           (event.raised /\ event.code = "TimeoutSignal" /\ stack[1].ctx.timedOut)
    /\ event.op = "start" => ~stack[1].ctx.timedOut

\* a check raised on a timed-out checker although the elapsed time is within
\* the limit
C34_Witness ==
    /\ event.op = "check"
    /\ event.kind = "timedOut"
    /\ event.raised
    /\ event.a <= event.b
    /\ event.a >= 0

\* C35: every execution starts with its gas counter at 0. An execution that
\* returns a value reports exactly the gas of its own import calls, and one
\* ends in GAS_EXHAUSTED only when its own import calls exceed the budget,
\* whatever earlier executions consumed and whatever gas_used a restore wrote
\* into the metrics.
C35_FreshGasCounter ==
    event.op = "execute" =>
        /\ event.ok =>
              instances[1].metrics.gasUsed = ImportCalls(Program(instances[1].wasmInstance))
        /\ event.code = "GAS_EXHAUSTED" =>
              ImportCalls(Program(instances[1].wasmInstance)) > instances[1].config.maxGas

\* an execution that used the whole budget, on an instance whose snapshot
\* already recorded a whole budget of gas from an earlier execution
C35_Witness ==
    /\ event.op = "execute"
    /\ event.ok
    /\ snaps # {}
    /\ instances[2].metrics.gasUsed = instances[1].config.maxGas
    /\ instances[1].metrics.gasUsed = instances[1].config.maxGas
    /\ instances[1].prng # instances[2].prng
\* C36 (as stated): an instantiation failure whose message has the
\* host-function-decorated form is classified HOST_FUNCTION_ERROR with the
\* function's name, for every function name and handler message; a failure
\* whose message mentions imports and has no such form is INVALID_MODULE.
C36_Original ==
    (event.op = "loadSettled" /\ ~event.ok /\ event.cause # "") =>
        /\ event.cause = "Host function" =>
              /\ event.code = "HOST_FUNCTION_ERROR"
              /\ event.kind = instances[event.inst].config.hostFunctions["h"]
        /\ event.cause = "LinkError:" => event.code = "INVALID_MODULE"
\* C37 (as stated): after validateDeterminism returns, the instance's linear
\* memory, PRNG state and metrics gas_used and execution_ms equal their
\* values before the call.
C37_Original ==
    event.op = "validate" =>
        /\ instances[1].memory = instances[2].memory
        /\ instances[1].prng = instances[2].prng
        /\ instances[1].metrics.gasUsed = instances[2].metrics.gasUsed
        /\ instances[1].metrics.executionMs = instances[2].metrics.executionMs
\* C37, the part that holds: validateDeterminism restores the written memory cell, the PRNG
\* state, gas_used and execution_ms; the memory never shrinks
C37_Restored ==
    event.op = "validate" =>
        /\ instances[1].memory.cell = instances[2].memory.cell
        /\ instances[1].memory.pages >= instances[2].memory.pages
        /\ instances[1].prng = instances[2].prng
        /\ instances[1].metrics.gasUsed = instances[2].metrics.gasUsed
        /\ instances[1].metrics.executionMs = instances[2].metrics.executionMs
\* C38 (as stated): an instance whose status is `running` has its resource
\* context attached, at every moment of an execution, also after a
\* re-entrant execute() on the same instance has returned.
C38_Original ==
    \A i \in Registered :
        instances[i].status = "running" => instances[i].executionContext # NoCtx

\* C39 (as stated): an instance whose status is `loaded` or `running` has
\* non-null module, instance and memory handles, under every interleaving of
\* load(), execute() and destroy().
C39_Original ==
    \A i \in Registered :
        instances[i].status \in {"loaded", "running"} =>
            /\ instances[i].wasmModule # "null"
            /\ instances[i].wasmInstance # "null"
            /\ instances[i].wasmMemory
\* C40 (as stated): after a successful restore() the instance's memory
\* contents and PRNG state are the snapshot's and __get_time returns the
\* timestamp the snapshot recorded, also when the snapshot was taken on
\* another instance.
C40_Original ==
    (event.op = "restore" /\ event.ok) =>
        \E s \in snaps :
            /\ instances[event.inst].memory.cell = s.memoryCell
            /\ instances[event.inst].prng = ToInt32(s.prngState)
            /\ importValue("time", instances[event.inst], 0, now) = ToInt32(s.timestamp)

\* C40, the part that holds: memory contents and PRNG state are the
\* snapshot's, and __get_time returns the timestamp of the configuration of
\* the instance restored into
C40_Restored ==
    (event.op = "restore" /\ event.ok) =>
        \E s \in snaps :
            /\ instances[event.inst].memory.cell = s.memoryCell
            /\ instances[event.inst].prng = ToInt32(s.prngState)
            /\ importValue("time", instances[event.inst], 0, now)
                   = ToInt32(instances[event.inst].config.eventTimestamp)
====
